---------------------------- MODULE Spec2Model ----------------------------
(***************************************************************************)
(* A model of the biome_lab simulation core: seeded value noise and fBM    *)
(* (src/src/sim/noise.ts), climate derivation (src/src/sim/climate.ts),    *)
(* brush stamping (src/src/sim/brush.ts), D8 river routing and the worker  *)
(* message handler (src/src/sim/worker.ts).                                *)
(*                                                                         *)
(* Numbers.  A JavaScript double is kept as the record of its sign,        *)
(* exponent and 53-bit significand, and every operation on doubles rounds  *)
(* its exact result to the nearest double as IEEE 754 arithmetic does      *)
(* (section Doubles).  A Float32Array element is a double of 24            *)
(* significant binary digits: a store rounds to the nearest such value,    *)
(* ties to even (Fround).  Arrays are functions on 0..n-1.  Integers of    *)
(* the program (sizes, indices, the 32-bit PRNG state, the permutation     *)
(* table, the elements of a Uint8Array) are exact.                         *)
(***************************************************************************)
EXTENDS Integers, Sequences, FiniteSets, TLC


(***************************************************************************)
(* Doubles                                                                 *)
(*                                                                         *)
(* A JavaScript number is an IEEE 754 double.  The model keeps one as the  *)
(* record [s, e, h, l] of its sign s (1 or -1), its exponent e and its     *)
(* 53-bit significand h * B + l (B = 2^26, B <= h < 2 * B, 0 <= l < B):    *)
(* the number is s * (h * B + l) * 2^(e - 52).  Zero, NaN and the two      *)
(* infinities are the records Zero, NaN, Infinity and NegInfinity.  Every  *)
(* operation rounds its exact result to the nearest double, ties to the    *)
(* even significand, as the arithmetic of the code does.  The zero of the  *)
(* model has no sign, and no number is small enough to be subnormal.       *)
(***************************************************************************)
B == 2^26                  \* limb base of a significand
D == 2^13                  \* digit base of the limb products
SignificandBits == 24      \* binary digits a Float32Array element keeps
MaxExp == 2^10             \* exponent past every finite double
MaxExp32 == 2^7            \* exponent past every finite Float32Array element

Dbl(s, e, h, l) == [s |-> s, e |-> e, h |-> h, l |-> l]
Zero == Dbl(1, -2 * MaxExp, 0, 0)
Infinity == Dbl(1, MaxExp, B, 0)
NegInfinity == Dbl(-1, MaxExp, B, 0)
NaN == Dbl(0, MaxExp, 0, 0)
IsNaN(a) == a.s = 0
IsInf(a) == a.s # 0 /\ a.e = MaxExp
IsZero(a) == a.h = 0
\* the infinity of sign s
SignedInf(s) == Dbl(s, MaxExp, B, 0)

Min2(a, b) == IF a < b THEN a ELSE b
Max2(a, b) == IF a > b THEN a ELSE b
AbsInt(n) == IF n < 0 THEN -n ELSE n

\* an exact intermediate result: the magnitude
\* (h * B^2 + l * B + g) * 2^(e - 78), with t set when digits below g
\* were cut off
Ext(e, h, l, g, t) == [e |-> e, h |-> h, l |-> l, g |-> g, t |-> t]
\* x / p cut off, for p = 2^d, 0 < d < 26, and q = B / p
Shifted(x, p, q) ==
  Ext(x.e, x.h \div p, (x.l \div p) + (x.h % p) * q,
      (x.g \div p) + (x.l % p) * q, x.t \/ x.g % p # 0)
\* x * p for p = 2^k, 0 < k <= 26, and q = B / p, the exponent lowered
\* to keep the number
ShiftedLeft(x, k, p, q) ==
  Ext(x.e - k, x.h * p + (x.l \div q), (x.l % q) * p + (x.g \div q),
      (x.g % q) * p, x.t)
ShiftLeft(x, k) == ShiftedLeft(x, k, 2^k, 2^(26 - k))
\* the shift that brings 0 < h < B to B <= h < 2 * B
Lead(h) == CHOOSE k \in 1..26 : h \div 2^(26 - k) = 1
\* round to nearest, ties to even
RoundsUp(n) == n.g > B \div 2 \/ (n.g = B \div 2 /\ (n.t \/ n.l % 2 = 1))
\* the double of sign s nearest to x: the leading digit is brought to
\* B <= h < 2 * B, then the digits below l are rounded away
RECURSIVE Pack(_, _)
Pack(s, x) ==
  IF x.l >= B THEN Pack(s, Ext(x.e, x.h + 1, x.l - B, x.g, x.t))
  ELSE IF x.h >= 2 * B
  THEN Pack(s, Ext(x.e + 1, x.h \div 2, (x.l \div 2) + (x.h % 2) * (B \div 2),
                   (x.g \div 2) + (x.l % 2) * (B \div 2), x.t \/ x.g % 2 = 1))
  ELSE IF x.h = 0
  THEN (IF x.l = 0 /\ x.g = 0 THEN Zero
        ELSE Pack(s, Ext(x.e - 26, x.l, x.g, 0, x.t)))
  ELSE IF x.h < B
  THEN Pack(s, ShiftLeft(x, Lead(x.h)))
  ELSE IF RoundsUp(x) THEN Pack(s, Ext(x.e, x.h, x.l + 1, 0, FALSE))
  ELSE IF x.e >= MaxExp THEN SignedInf(s)
  ELSE Dbl(s, x.e, x.h, x.l)

\* the whole number n, |n| < 2^31: m = |n| has k binary digits
BitLen(m) == CHOOSE k \in 1..31 : m \div 2^(k - 1) = 1
IntOf(s, m, k) ==
  IF k <= 27 THEN Dbl(s, k - 1, m * 2^(27 - k), 0)
  ELSE Dbl(s, k - 1, m \div 2^(k - 27), (m % 2^(k - 27)) * 2^(53 - k))
Num(n) ==
  IF n = 0 THEN Zero
  ELSE IntOf(IF n < 0 THEN -1 ELSE 1, AbsInt(n), BitLen(AbsInt(n)))

\* |a| < |b|, for numbers that are not NaN
MagLt(a, b) ==
  a.e < b.e \/ (a.e = b.e /\ (a.h < b.h \/ (a.h = b.h /\ a.l < b.l)))
Lt(a, b) ==
  /\ ~IsNaN(a)
  /\ ~IsNaN(b)
  /\ IF a.s # b.s THEN a.s < b.s
     ELSE IF a.s > 0 THEN MagLt(a, b) ELSE MagLt(b, a)
Gt(a, b) == Lt(b, a)
Le(a, b) == ~IsNaN(a) /\ ~IsNaN(b) /\ ~Lt(b, a)
Ge(a, b) == Le(b, a)
Neg(a) == IF IsNaN(a) \/ IsZero(a) THEN a ELSE [a EXCEPT !.s = -a.s]
Abs(a) == IF a.s < 0 THEN [a EXCEPT !.s = 1] ELSE a
Sign(a) == IF IsNaN(a) \/ IsZero(a) THEN 0 ELSE a.s
Max0(a) == IF IsNaN(a) THEN NaN ELSE IF a.s < 0 THEN Zero ELSE a

\* x / 2^d cut off, the exponent kept
RECURSIVE ShiftRight(_, _)
ShiftRight(x, d) ==
  IF d = 0 THEN x
  ELSE IF d < 26 THEN Shifted(x, 2^d, 2^(26 - d))
  ELSE IF x.h = 0 /\ x.l = 0 THEN Ext(x.e, 0, 0, 0, x.t \/ x.g # 0)
  ELSE ShiftRight(Ext(x.e, x.h \div B, x.h % B, x.l, x.t \/ x.g # 0), d - 26)
\* the significand of y at the exponent of x, for |x| >= |y|
Aligned(x, y) == ShiftRight(Ext(x.e, y.h, y.l, 0, FALSE), x.e - y.e)
\* limbs that may have left 0..(B - 1) brought back
Borrowed(e, h, l, g, t) ==
  Ext(e, h + ((l + (g \div B)) \div B), (l + (g \div B)) % B, g % B, t)
\* |x| + |y| for sg = 1 and |x| - |y| for sg = -1, |x| >= |y| > 0
Combined(x, y, sg) ==
  Borrowed(x.e, x.h + sg * y.h, x.l + sg * y.l,
           sg * y.g - (IF y.t /\ sg < 0 THEN 1 ELSE 0), y.t)
RECURSIVE Add(_, _)
Add(a, b) ==
  IF IsNaN(a) \/ IsNaN(b) THEN NaN
  ELSE IF IsInf(a) THEN (IF IsInf(b) /\ a.s # b.s THEN NaN ELSE a)
  ELSE IF IsInf(b) \/ IsZero(a) THEN b
  ELSE IF IsZero(b) THEN a
  ELSE IF MagLt(a, b) THEN Add(b, a)
  ELSE Pack(a.s, Combined(a, Aligned(a, b), a.s * b.s))
Sub(a, b) == Add(a, Neg(b))

\* the product a * b of two limbs as hi * B + lo, from their digits
MulJoin(hh, c, d) ==
  [hi |-> hh + (c \div D) + (((c % D) * D + d) \div B),
   lo |-> ((c % D) * D + d) % B]
Mul2(a, b) ==
  MulJoin((a \div D) * (b \div D),
          (a \div D) * (b % D) + (a % D) * (b \div D),
          (a % D) * (b % D))
\* the four limbs of (ah * B + al) * (bh * B + bl)
Limbs4(p3, p2, p1, p0) ==
  [p3 |-> p3 + ((p2 + (p1 \div B)) \div B), p2 |-> (p2 + (p1 \div B)) % B,
   p1 |-> p1 % B, p0 |-> p0]
ProdParts(hh, hl, lh, ll) ==
  Limbs4(hh.hi, hl.hi + lh.hi + hh.lo, ll.hi + hl.lo + lh.lo, ll.lo)
Prod(ah, al, bh, bl) ==
  ProdParts(Mul2(ah, bh), Mul2(ah, bl), Mul2(al, bh), Mul2(al, bl))
ProdExt(e, p) == Ext(e, p.p3, p.p2, p.p1, p.p0 # 0)
Mul(a, b) ==
  IF IsNaN(a) \/ IsNaN(b) THEN NaN
  ELSE IF IsInf(a) \/ IsInf(b)
  THEN (IF IsZero(a) \/ IsZero(b) THEN NaN ELSE SignedInf(a.s * b.s))
  ELSE IF IsZero(a) \/ IsZero(b) THEN Zero
  ELSE Pack(a.s * b.s, ProdExt(a.e + b.e, Prod(a.h, a.l, b.h, b.l)))

\* long division: n more binary digits of the quotient r.q, from the
\* remainder r.h * B + r.l, which stays below twice the divisor
Ge2(ah, al, bh, bl) == ah > bh \/ (ah = bh /\ al >= bl)
Doubled(h, l, q) ==
  [h |-> 2 * h + ((2 * l) \div B), l |-> (2 * l) % B, q |-> q]
RECURSIVE DivBits(_, _, _)
DivBits(r, b, n) ==
  IF n = 0 THEN r
  ELSE IF Ge2(r.h, r.l, b.h, b.l)
  THEN DivBits(Doubled(r.h - b.h, r.l - b.l, 2 * r.q + 1), b, n - 1)
  ELSE DivBits(Doubled(r.h, r.l, 2 * r.q), b, n - 1)
GuardBits == 3
\* the quotient digits of the three limbs, one after the other
DivGuard(e, h, l, r) ==
  Ext(e, h, l, r.q * 2^(26 - GuardBits), r.h # 0 \/ r.l # 0)
DivLow(e, h, r, b) ==
  DivGuard(e, h, r.q, DivBits([r EXCEPT !.q = 0], b, GuardBits))
DivHigh(e, r, b) == DivLow(e, r.q, DivBits([r EXCEPT !.q = 0], b, 26), b)
Div(a, b) ==
  IF IsNaN(a) \/ IsNaN(b) THEN NaN
  ELSE IF IsInf(a) THEN (IF IsInf(b) THEN NaN ELSE SignedInf(a.s * b.s))
  ELSE IF IsInf(b) THEN Zero
  ELSE IF IsZero(b) THEN (IF IsZero(a) THEN NaN ELSE SignedInf(a.s))
  ELSE IF IsZero(a) THEN Zero
  ELSE Pack(a.s * b.s,
            DivHigh(a.e - b.e, DivBits([h |-> a.h, l |-> a.l, q |-> 0], b, 27), b))

\* Math.sqrt: the largest 53-bit root whose square is at most the
\* radicand nh * B^3 + nl * B^2, found digit by digit, then rounded
LimbsLe(p, nh, nl) ==
  p.p3 < nh \/ (p.p3 = nh /\ (p.p2 < nl \/ (p.p2 = nl /\ p.p1 = 0 /\ p.p0 = 0)))
SquareFits(h, l, nh, nl) == LimbsLe(Prod(h, l, h, l), nh, nl)
RECURSIVE SqrtBits(_, _, _, _, _)
SqrtTry(h, l, th, tl, nh, nl, k) ==
  IF SquareFits(th, tl, nh, nl) THEN SqrtBits(th, tl, nh, nl, k - 1)
  ELSE SqrtBits(h, l, nh, nl, k - 1)
SqrtBits(h, l, nh, nl, k) ==
  IF k < 0 THEN [h |-> h, l |-> l]
  ELSE SqrtTry(h, l, IF k >= 26 THEN h + 2^(k - 26) ELSE h,
               IF k >= 26 THEN l ELSE l + 2^k, nh, nl, k)
\* the root r is short of the exact one by more than a half when
\* radicand - r^2 > r, that is when (r + 1/2)^2 = r^2 + r + 1/4 fits
HalfFits(p, r, nh, nl) ==
  LimbsLe(Limbs4(p.p3, p.p2 + (r.h \div B), p.p1 + (r.h % B) + ((p.p0 + r.l + 1) \div B),
                 (p.p0 + r.l + 1) % B), nh, nl)
SqrtRound(s, e, r, nh, nl) ==
  Pack(s, Ext(e, r.h,
              r.l + (IF HalfFits(Prod(r.h, r.l, r.h, r.l), r, nh, nl) THEN 1 ELSE 0),
              0, FALSE))
SqrtOf(e, nh, nl) == SqrtRound(1, e, SqrtBits(B, 0, nh, nl, 51), nh, nl)
Sqrt(a) ==
  IF IsNaN(a) \/ IsZero(a) THEN a
  ELSE IF a.s < 0 THEN NaN
  ELSE IF IsInf(a) THEN a
  ELSE IF a.e % 2 = 0 THEN SqrtOf(a.e \div 2, a.h, a.l)
  ELSE SqrtOf(a.e \div 2, 2 * a.h + (a.l \div (B \div 2)), (2 * a.l) % B)

\* Float32Array store (Math.fround): the significand cut to 24 binary
\* digits, fewer below the smallest normal element, ties to even
RoundHigh(v, unit, up) ==
  IF (v.h - (v.h % unit)) + (IF up THEN unit ELSE 0) = 0 THEN Zero
  ELSE IF (v.h - (v.h % unit)) + (IF up THEN unit ELSE 0) = 2 * B
  THEN Dbl(v.s, v.e + 1, B, 0)
  ELSE Dbl(v.s, v.e, (v.h - (v.h % unit)) + (IF up THEN unit ELSE 0), 0)
HighUp(v, unit) ==
  \/ 2 * (v.h % unit) > unit
  \/ /\ 2 * (v.h % unit) = unit
     /\ (v.l > 0 \/ (v.h \div unit) % 2 = 1)
Overflowed32(d) == IF d.e >= MaxExp32 THEN SignedInf(d.s) ELSE d
FroundKeep(v, keep) ==
  IF keep < 0 THEN Zero
  ELSE Overflowed32(RoundHigh(v, 2^(27 - keep), HighUp(v, 2^(27 - keep))))
Fround(v) ==
  IF IsNaN(v) \/ IsInf(v) \/ IsZero(v) THEN v
  ELSE FroundKeep(v, Min2(SignificandBits,
                          SignificandBits - ((2 - MaxExp32) - v.e)))

\* Math.floor and Math.ceil of a finite number of magnitude below 2^31
WholePart(v) ==
  IF v.e < 0 THEN [ip |-> 0, frac |-> ~IsZero(v)]
  ELSE IF v.e <= 26
  THEN [ip |-> v.h \div 2^(26 - v.e),
        frac |-> v.h % 2^(26 - v.e) # 0 \/ v.l # 0]
  ELSE [ip |-> v.h * 2^(v.e - 26) + (v.l \div 2^(52 - v.e)),
        frac |-> v.l % 2^(52 - v.e) # 0]
FloorOf(s, w) == IF s > 0 THEN w.ip ELSE -w.ip - (IF w.frac THEN 1 ELSE 0)
Floor(v) == FloorOf(v.s, WholePart(v))
Ceil(v) == -FloorOf(-v.s, WholePart(v))

\* the decimal literal n / 1000 and the half-integer n / 2
Thousandths == [n \in 0..1000 |-> Div(Num(n), Num(1000))]
Dec(n) == Thousandths[n]
Halves(n) == Div(Num(n), Num(2))

(***************************************************************************)
(* Math.cos                                                                *)
(*                                                                         *)
(* Math.cos of V8 is the cosine of fdlibm (ieee754::cos): an argument of   *)
(* magnitude up to pi / 4 goes to the polynomial of the cosine, a larger   *)
(* one is first reduced by a multiple n of pi / 2 to y0 + y1 and goes to   *)
(* the polynomial of the cosine or of the sine by n mod 4.  Every step is  *)
(* a double operation, so the result is within one unit in the last place  *)
(* of the cosine and not always the nearest double.  The tests of the      *)
(* library on the high word of a double (sign, exponent and the first 20   *)
(* digits of the fraction) are tests on HighWord.  The cosine is even, in  *)
(* the library too, and is computed from the magnitude.  radialAdd passes  *)
(* piOverR * d with d2 <= r2, a magnitude of pi at most (up to rounding),  *)
(* or NaN; the reduction the library has for magnitudes above              *)
(* 2^19 * pi / 2 is left out and yields NaN here.                          *)
(***************************************************************************)
PI == Dbl(1, 1, 105414357, 4467992)
Half == Dbl(1, -1, B, 0)
\* the high word of |a|, for a finite a
HighWord(a) == IF IsZero(a) THEN 0 ELSE (a.e + 1023) * 2^20 + ((a.h - B) \div 64)

\* __kernel_cos(x, y): the cosine of x + y on [-pi/4, pi/4], y the tail of x
CosCoeff ==
  <<Dbl(1, -5, 89478485, 22369612), Dbl(-1, -10, 95443717, 46223735),
    Dbl(1, -16, 109078534, 30086544), Dbl(-1, -22, 77566944, 10244781),
    Dbl(1, -29, 75212719, 28619204), Dbl(-1, -37, 104774255, 42481876)>>
\* r = z * (C1 + z * (C2 + z * (C3 + z * (C4 + z * (C5 + z * C6)))))
RECURSIVE CosHorner(_, _)
CosHorner(z, k) ==
  IF k = 6 THEN CosCoeff[6] ELSE Add(CosCoeff[k], Mul(z, CosHorner(z, k + 1)))
\* z * r - x * y
CosTail(x, y, z) == Sub(Mul(z, Mul(z, CosHorner(z, 1))), Mul(x, y))
\* qx: 0.28125 for |x| > 0.78125 (high word above 0x3FE90000), else the
\* double whose high word is that of |x| less 0x00200000 and whose low
\* word is 0, about |x| / 4
CosQx(x) ==
  IF HighWord(x) > 1072234496 THEN Dbl(1, -2, 75497472, 0)
  ELSE Dbl(1, x.e - 2, x.h - (x.h % 64), 0)
\* a - (hz - (z * r - x * y)) for hz = 0.5 * z - qx and a = 1 - qx
CosAbove(x, y, z, qx) ==
  Sub(Sub(Num(1), qx), Sub(Sub(Mul(Half, z), qx), CosTail(x, y, z)))
\* 1 for |x| < 2^-27 (high word below 0x3E400000);
\* 1 - (0.5 * z - (z * r - x * y)) for |x| < 0.3 (below 0x3FD33333)
CosWith(x, y, z) ==
  IF HighWord(x) < 1044381696 THEN Num(1)
  ELSE IF HighWord(x) < 1070805811
  THEN Sub(Num(1), Sub(Mul(Half, z), CosTail(x, y, z)))
  ELSE CosAbove(x, y, z, CosQx(x))
KernelCos(x, y) == CosWith(x, y, Mul(x, x))

\* __kernel_sin(x, y, 1): the sine of x + y on [-pi/4, pi/4]
SinCoeff ==
  <<Dbl(-1, -3, 89478485, 22369609), Dbl(1, -7, 71582788, 17889446),
    Dbl(-1, -13, 109078534, 29450709), Dbl(1, -19, 96958677, 61996669),
    Dbl(-1, -26, 112818594, 36412651), Dbl(1, -33, 91639446, 47175036)>>
\* r = S2 + z * (S3 + z * (S4 + z * (S5 + z * S6)))
RECURSIVE SinHorner(_, _)
SinHorner(z, k) ==
  IF k = 6 THEN SinCoeff[6] ELSE Add(SinCoeff[k], Mul(z, SinHorner(z, k + 1)))
\* x - ((z * (0.5 * y - v * r) - y) - v * S1) for v = z * x
SinWith(x, y, z, v) ==
  Sub(x, Sub(Sub(Mul(z, Sub(Mul(Half, y), Mul(v, SinHorner(z, 2)))), y),
             Mul(v, SinCoeff[1])))
\* x itself for |x| < 2^-27
KernelSin(x, y) ==
  IF HighWord(x) < 1044381696 THEN x ELSE SinWith(x, y, Mul(x, x), Mul(Mul(x, x), x))

\* __ieee754_rem_pio2(x, y) for x > pi / 4: n and the remainder y0 + y1 of
\* x - n * pi / 2.  pi / 2 is taken in the pieces pio2_1 + pio2_2 + pio2_3
\* of 33 digits each, with the tails pio2_1t, pio2_2t, pio2_3t of what is
\* left after the first, the second, the third piece.
InvPio2 == Dbl(1, -1, 85445659, 30001283)
Pio2 ==
  <<Dbl(1, 0, 105414357, 4194304), Dbl(1, -34, 70064198, 39845888),
    Dbl(1, -69, 80110219, 33554432)>>
Pio2Tail ==
  <<Dbl(1, -34, 70064198, 40002353), Dbl(1, -69, 80110219, 33779827),
    Dbl(1, -104, 115402377, 18893249)>>
\* npio2_hw: the high words of n * pi / 2, n = 1 .. 32
Npio2Hw ==
  <<1073291771, 1074340347, 1074977148, 1075388923, 1075800698, 1076025724,
    1076231611, 1076437499, 1076643386, 1076849274, 1076971356, 1077074300,
    1077177244, 1077280187, 1077383131, 1077486075, 1077589019, 1077691962,
    1077794906, 1077897850, 1077968460, 1078019932, 1078071404, 1078122876,
    1078174348, 1078225820, 1078277292, 1078328763, 1078380235, 1078431707,
    1078483179, 1078534651>>
\* y[0] = r - w;  y[1] = (r - y[0]) - w
RemOf(n, r, w, y0) == [n |-> n, y0 |-> y0, y1 |-> Sub(Sub(r, y0), w)]
RemDone(n, r, w) == RemOf(n, r, w, Sub(r, w))
\* one more piece of pi / 2: t = r; w = fn * pio2_k; r = t - w;
\* w = fn * pio2_kt - ((t - r) - w)
RemR(t, w) == Sub(t, w)
RemW(fn, t, w, k) == Sub(Mul(fn, Pio2Tail[k]), Sub(Sub(t, RemR(t, w)), w))
\* the second and the third round: taken when the exponent of y[0] is
\* more than `lost` below that of x, 16 and 49
RECURSIVE RemRound(_, _, _, _, _, _)
RemRound(n, fn, j, r, w, k) ==
  IF k < 3 /\ j - Sub(r, w).e > (IF k = 1 THEN 16 ELSE 49)
  THEN RemRound(n, fn, j, RemR(r, Mul(fn, Pio2[k + 1])),
                RemW(fn, r, Mul(fn, Pio2[k + 1]), k + 1), k + 1)
  ELSE RemDone(n, r, w)
\* the first round is enough when n < 32 and x is not next to n * pi / 2
RemFirst(x, n, fn, r, w) ==
  IF n < 32 /\ HighWord(x) # Npio2Hw[n] THEN RemDone(n, r, w)
  ELSE RemRound(n, fn, x.e, r, w, 1)
\* n = (int)(x * invpio2 + 0.5);  r = x - fn * pio2_1;  w = fn * pio2_1t
RemMedium(x, n) ==
  RemFirst(x, n, Num(n), Sub(x, Mul(Num(n), Pio2[1])), Mul(Num(n), Pio2Tail[1]))
\* below 3 * pi / 4 (high word below 0x4002D97C) n is 1: z = x - pio2_1,
\* and next to pi / 2 (high word 0x3FF921FB) z = (x - pio2_1) - pio2_2
RemPio2(x) ==
  IF HighWord(x) < 1073928572
  THEN (IF HighWord(x) # 1073291771 THEN RemDone(1, Sub(x, Pio2[1]), Pio2Tail[1])
        ELSE RemDone(1, Sub(Sub(x, Pio2[1]), Pio2[2]), Pio2Tail[2]))
  ELSE RemMedium(x, Floor(Add(Mul(x, InvPio2), Half)))

\* cos(x) by n & 3
CosReduced(y) ==
  IF y.n % 4 = 0 THEN KernelCos(y.y0, y.y1)
  ELSE IF y.n % 4 = 1 THEN Neg(KernelSin(y.y0, y.y1))
  ELSE IF y.n % 4 = 2 THEN Neg(KernelCos(y.y0, y.y1))
  ELSE KernelSin(y.y0, y.y1)
\* |x| <= pi / 4 by the high word (0x3FE921FB) needs no reduction;
\* above 2^19 * pi / 2 (0x413921FB) see the head of the section
CosOf(x) ==
  IF HighWord(x) <= 1072243195 THEN KernelCos(x, Zero)
  ELSE IF HighWord(x) <= 1094263291 THEN CosReduced(RemPio2(x))
  ELSE NaN
Cos(a) == IF IsNaN(a) \/ IsInf(a) THEN NaN ELSE CosOf(Abs(a))


(***************************************************************************)
(* noise.ts: xorshift32 on a 32-bit word kept as <<high 16 bits, low 16>>  *)
(***************************************************************************)
W16 == 2^16

RECURSIVE XorBits(_, _, _)
XorBits(a, b, n) ==
  IF n = 0 THEN 0
  ELSE (((a % 2) + (b % 2)) % 2) + 2 * XorBits(a \div 2, b \div 2, n - 1)
Xor16(a, b) == XorBits(a, b, 16)
Xor32(s, t) == <<Xor16(s[1], t[1]), Xor16(s[2], t[2])>>

\* seed >>> 0 for 0 <= seed < 2^31
ToU32(seed) == <<seed \div W16, seed % W16>>
Shl13(s) == <<((s[2] \div 8) + (s[1] % 8) * 8192) % W16, (s[2] % 8) * 8192>>
Shr17(s) == <<0, s[1] \div 2>>
Shl5(s)  == <<((s[2] \div 2048) + (s[1] % 2048) * 32) % W16, (s[2] % 2048) * 32>>

\* the closure's initial state: seed >>> 0 || 1
xorshift32(seed32) == IF seed32 = <<0, 0>> THEN <<0, 1>> ELSE seed32
\* x ^= x << 13;  x ^= x >>> 17;  x ^= x << 5
XorShl13(s) == Xor32(s, Shl13(s))
XorShr17(s) == Xor32(s, Shr17(s))
XorShl5(s) == Xor32(s, Shl5(s))
\* one call of the closure: the next state
xorshiftNext(s) == XorShl5(XorShr17(XorShl13(s)))
\* Math.floor(rng() * m) for the state s just produced, 1 <= m <= 256:
\* rng() = s / 2^32 and the product is exact in a double
RngFloor(s, m) == (s[1] * m + (s[2] * m) \div W16) \div W16

\* Fisher-Yates shuffle, the rounds i, i-1, ..., stop+1 of the loop
\* `for (i = 255; i > 0; i--)`; yields the table and the generator state
RECURSIVE ShuffleRun(_, _, _, _)
ShuffleRun(p, s, i, stop) ==
  IF i <= stop THEN [p |-> p, s |-> s]
  ELSE LET s1 == xorshiftNext(s)
           j  == RngFloor(s1, i + 1)
           t  == p[i]
       IN  \* 0 <= j <= i always; the test makes the swap happen before the next round
           IF j <= i /\ t = p[i]
           THEN ShuffleRun([p EXCEPT ![i] = p[j], ![j] = t], s1, i - 1, stop)
           ELSE [p |-> p, s |-> s]

\* the whole loop, evaluated sixteen rounds at a time
RECURSIVE Shuffle(_, _, _)
Shuffle(p, s, i) ==
  IF i = 0 THEN p
  ELSE LET stop == IF i > 16 THEN i - 16 ELSE 0
           r    == ShuffleRun(p, s, i, stop)
       IN  IF r.s[1] >= 0 THEN Shuffle(r.p, r.s, stop) ELSE p

\* new ValueNoise2D(seed): the 512-entry table perm[i] = p[i & 255]
ValueNoise2D(seed32) ==
  LET p == Shuffle([i \in 0..255 |-> i], xorshift32(seed32), 255)
  IN  [i \in 0..511 |-> p[i % 256]]

\* fade(t) = t*t*t*(t*(t*6 - 15) + 10)
fade(t) ==
  Mul(Mul(Mul(t, t), t),
      Add(Mul(t, Sub(Mul(t, Num(6)), Num(15))), Num(10)))
\* lerp(a, b, t) = a + (b - a)*t
lerp(a, b, t) == Add(a, Mul(Sub(b, a), t))

\* ValueNoise2D.lattice: (perm[ix & 255] + iy) & 255
lattice(perm, ix, iy) == (perm[ix % 256] + iy) % 256
\* the quotients n / 255 of the 256 values an element of perm takes
Over255 == [n \in 0..255 |-> Div(Num(n), Num(255))]
\* ValueNoise2D.val: perm[lattice(ix, iy)] / 255
val(perm, ix, iy) == Over255[perm[lattice(perm, ix, iy)]]

\* the two nested lerps that end ValueNoise2D.sample
bilerp(v00, v10, v01, v11, u, v) == lerp(lerp(v00, v10, u), lerp(v01, v11, u), v)
\* ValueNoise2D.sample once x0 = floor(fx), y0 = floor(fy), tx = fx - x0, ty = fy - y0
sampleCell(perm, x0, y0, tx, ty) ==
  bilerp(val(perm, x0, y0), val(perm, x0 + 1, y0),
         val(perm, x0, y0 + 1), val(perm, x0 + 1, y0 + 1), fade(tx), fade(ty))
\* ValueNoise2D.sample once fx = x*frequency, fy = y*frequency
sampleAt(perm, fx, fy) ==
  sampleCell(perm, Floor(fx), Floor(fy),
             Sub(fx, Num(Floor(fx))), Sub(fy, Num(Floor(fy))))
\* ValueNoise2D.sample(x, y, frequency)
sample(perm, x, y, frequency) == sampleAt(perm, Mul(x, frequency), Mul(y, frequency))

\* the loop of fbm2D from octave o on; acc = [amp, freq, sum, norm]
RECURSIVE fbmLoop(_, _, _, _, _, _)
fbmLoop(perm, x, y, np, o, acc) ==
  IF o >= np.octaves THEN acc
  ELSE fbmLoop(perm, x, y, np, o + 1,
               [sum  |-> Add(acc.sum, Mul(sample(perm, x, y, acc.freq), acc.amp)),
                norm |-> Add(acc.norm, acc.amp),
                freq |-> Mul(acc.freq, np.lacunarity),
                amp  |-> Mul(acc.amp, np.gain)])

\* the value fbm2D returns for the accumulators the loop leaves
fbmValue(r) == IF Gt(r.norm, Num(0)) THEN Div(r.sum, r.norm) ELSE Num(0)
\* fbm2D(noise, x, y, params, baseFreq)
fbm2D(perm, x, y, np, baseFreq) ==
  fbmValue(fbmLoop(perm, x, y, np, 0,
                   [amp |-> Dec(500), freq |-> baseFreq,
                    sum |-> Num(0), norm |-> Num(0)]))

\* (w - 0.5) * warp, the displacement of warpedFbm2D along one axis
warpShift(w, warp) == Mul(Sub(w, Dec(500)), warp)
\* warpedFbm2D(nBase, nWarpX, nWarpY, x, y, params, baseFreq, warp), warpFreq = baseFreq*0.5
warpedFbm2D(nBase, nWarpX, nWarpY, x, y, np, baseFreq, warp) ==
  fbm2D(nBase,
        Add(x, warpShift(fbm2D(nWarpX, x, y, np, Mul(baseFreq, Dec(500))), warp)),
        Add(y, warpShift(fbm2D(nWarpY, x, y, np, Mul(baseFreq, Dec(500))), warp)),
        np, baseFreq)

\* the constants generateHeightField xors the seed with:
\* 0x9e3779b9, 0x517cc1b7, 0x85ebca6b
SeedMasks == [nBase |-> <<40503, 31161>>, nWarpX |-> <<20860, 49591>>,
              nWarpY |-> <<34283, 51819>>]
\* the three samplers generateHeightField builds
NoiseSet(seed) ==
  [k \in DOMAIN SeedMasks |-> ValueNoise2D(Xor32(ToU32(seed), SeedMasks[k]))]

\* the cells a `for y < size, for x < size` double loop visits (none when size <= 0)
Cells(size) == {y * size + x : x \in 0..(size - 1), y \in 0..(size - 1)}
CellX(i, size) == i % size
CellY(i, size) == i \div size

\* running maximum of an array of numbers
RECURSIVE RunMax(_, _, _, _)
RunMax(raw, i, n, cur) ==
  IF i >= n THEN cur
  ELSE IF Gt(raw[i], cur) THEN RunMax(raw, i + 1, n, raw[i])
       ELSE RunMax(raw, i + 1, n, cur)
\* minV and maxV as the first loop of generateHeightField keeps them
RECURSIVE RunMinV(_, _, _, _)
RunMinV(raw, i, n, cur) ==
  IF i >= n THEN cur
  ELSE IF Lt(raw[i], cur) THEN RunMinV(raw, i + 1, n, raw[i])
       ELSE RunMinV(raw, i + 1, n, cur)
RECURSIVE RunMaxV(_, _, _, _)
RunMaxV(raw, i, n, cur) ==
  IF i >= n THEN cur
  ELSE IF Gt(raw[i], cur) THEN RunMaxV(raw, i + 1, n, raw[i])
       ELSE RunMaxV(raw, i + 1, n, cur)

\* the raw samples v of the first loop (doubles), by cell
RawSamples(ns, size, np, baseFreq) ==
  [i \in Cells(size) |->
     warpedFbm2D(ns.nBase, ns.nWarpX, ns.nWarpY,
                 Num(CellX(i, size)), Num(CellY(i, size)), np,
                 baseFreq, np.warp)]

\* JavaScript `undefined` (a missing moisture array, the worker's unset
\* fields, an omitted argument)
Undefined == [undefined |-> TRUE]

\* worker.ts: fullRecompute passes { islandMask: USE_ISLAND_MASK }
USE_ISLAND_MASK == FALSE
\* useMask = !!opts?.islandMask
UseMask(opts) == opts # Undefined /\ opts.islandMask

\* Math.hypot(a, b) for a, b >= 0: with the larger one, max, the root of
\* the sum of the squares of a / max and b / max, times max
HypotScaled(a, b, max) ==
  IF IsZero(max) THEN max
  ELSE Mul(Sqrt(Add(Mul(Div(a, max), Div(a, max)),
                    Mul(Div(b, max), Div(b, max)))), max)
hypot(a, b) == HypotScaled(a, b, IF Lt(a, b) THEN b ELSE a)

\* smoothstep(e0, e1, x): t = min(1, max(0, (x - e0) / (e1 - e0))),
\* t * t * (3 - 2 * t)
Clamp01(t) == IF Lt(t, Num(0)) THEN Num(0) ELSE IF Gt(t, Num(1)) THEN Num(1) ELSE t
SmoothPoly(t) == Mul(Mul(t, t), Sub(Num(3), Mul(Num(2), t)))
smoothstep(e0, e1, x) == SmoothPoly(Clamp01(Div(Sub(x, e0), Sub(e1, e0))))

\* mask = 1 - smoothstep(0.7, 1.0, r), r = Math.sqrt(dx * dx + dy * dy)
IslandMask(dx, dy) ==
  Sub(Num(1), smoothstep(Dec(700), Num(1),
                         Sqrt(Add(Mul(dx, dx), Mul(dy, dy)))))
\* the store of h into out at cell (x, y), after h *= mask when the mask is
\* in use: dx = (x - cx) / maxR, dy = (y - cy) / maxR with cx = cy = c; a
\* grid of one cell has maxR = 0 and dx = 0 / 0
StoreHeight(h, useMask, x, y, c, maxR) ==
  IF ~useMask THEN Fround(h)
  ELSE Fround(Mul(h, IslandMask(Div(Sub(Num(x), c), maxR),
                                Div(Sub(Num(y), c), maxR))))

\* generateHeightField(out, size, seed, params, baseFreq, opts):
\* first loop  out[i] = v (a Float32Array store), minV/maxV from the doubles v;
\* second loop out[i] = (out[i] - minV) * inv, times the island mask when
\* opts.islandMask is set, with cx = cy = (size - 1) * 0.5 and
\* maxR = Math.hypot(cx, cy)
NormalizeWith(out, size, raw, minV, inv, useMask, c) ==
  [i \in DOMAIN out |->
     IF i \in Cells(size)
     THEN StoreHeight(Mul(Sub(Fround(raw[i]), minV), inv), useMask,
                      CellX(i, size), CellY(i, size), c, hypot(c, c))
     ELSE out[i]]
\* inv = maxV > minV ? 1 / (maxV - minV) : 1
InvRange(minV, maxV) ==
  IF Gt(maxV, minV) THEN Div(Num(1), Sub(maxV, minV)) ELSE Num(1)
CellCount(size) == IF size > 0 THEN size * size ELSE 0
NormalizeField(out, size, raw, useMask) ==
  NormalizeWith(out, size, raw, RunMinV(raw, 0, CellCount(size), Infinity),
                InvRange(RunMinV(raw, 0, CellCount(size), Infinity),
                         RunMaxV(raw, 0, CellCount(size), NegInfinity)),
                useMask, Mul(Num(size - 1), Dec(500)))

\* worker.ts: the base frequency fullRecompute passes, 1 / 128
DEFAULT_BASE_FREQ == Div(Num(1), Num(128))

\* the seeds and the parameter sets the requests of the model carry
Seeds == {1, 2}
ParamsA ==
  [size |-> 5,
   noise |-> [octaves |-> 2, lacunarity |-> Num(32), gain |-> Dec(500), warp |-> Num(0)],
   climate |-> [seaLevel |-> Dec(450), tempLapse |-> Dec(500), moistureShift |-> Num(0)],
   riverThreshold |-> Dec(250)]
ParamsB ==
  [size |-> 4,
   noise |-> [octaves |-> 2, lacunarity |-> Num(32), gain |-> Dec(500), warp |-> Num(4)],
   climate |-> [seaLevel |-> Dec(300), tempLapse |-> Dec(800), moistureShift |-> Dec(100)],
   riverThreshold |-> Dec(100)]
ParamsSet == {ParamsA, ParamsB}

\* the same parameters with no octave at all
ZeroOctaves(ps) == [ps EXCEPT !.noise.octaves = 0]

\* The noise tables of these seeds, and the height fields of these seeds
\* and parameter sets at the worker's base frequency, computed once
NoiseTables == [sd \in Seeds |-> NoiseSet(sd)]
NoiseFor(seed) == IF seed \in Seeds THEN NoiseTables[seed] ELSE NoiseSet(seed)
KnownParams == ParamsSet \cup {ZeroOctaves(ps) : ps \in ParamsSet}
Known(size, seed, np, baseFreq) ==
  /\ seed \in Seeds /\ baseFreq = DEFAULT_BASE_FREQ
  /\ \E ps \in KnownParams : ps.size = size /\ ps.noise = np
RECURSIVE HeightsOf(_, _, _, _, _, _)
HeightTables ==
  [sd \in Seeds |->
     [ps \in KnownParams |->
        HeightsOf(ps.size, sd, ps.noise, DEFAULT_BASE_FREQ, FALSE, FALSE)]]
KnownHeights(size, seed, np) ==
  HeightTables[seed][CHOOSE ps \in KnownParams : ps.size = size /\ ps.noise = np]
\* the two loops of generateHeightField on a fresh buffer; `cached` allows
\* the answer without the mask to come from HeightTables
HeightsOf(size, seed, np, baseFreq, useMask, cached) ==
  IF cached /\ ~useMask /\ Known(size, seed, np, baseFreq)
  THEN KnownHeights(size, seed, np)
  ELSE NormalizeField([i \in Cells(size) |-> Num(0)], size,
                      RawSamples(NoiseFor(seed), size, np, baseFreq), useMask)
Paste(out, size, h) ==
  [i \in DOMAIN out |-> IF i \in Cells(size) THEN h[i] ELSE out[i]]

\* generateHeightField(out, size, seed, params, baseFreq, opts); opts is
\* Undefined when the argument is omitted
generateHeightField(out, size, seed, params, baseFreq, opts) ==
  Paste(out, size, HeightsOf(size, seed, params.noise, baseFreq, UseMask(opts), TRUE))

(***************************************************************************)
(* Typed arrays.  A read outside the array yields `undefined`, NaN in      *)
(* arithmetic; a write outside the array is dropped.                       *)
(***************************************************************************)
Rd(arr, i) == IF i \in DOMAIN arr THEN arr[i] ELSE NaN
\* new Float32Array(len) and new Uint8Array(len), len >= 0: all zero
ZeroArray(len) == [i \in 0..(len - 1) |-> Num(0)]
ZeroBytes(len) == [i \in 0..(len - 1) |-> 0]

\* An inclusive pixel rectangle: the rows y of its double loop
\* `for y in y0..y1, for x in x0..x1` in which i = y * size + x is visited,
\* the cells the loop visits, and the last row in which it visits cell i
RowsAt(r, size, i) == {y \in (r.y0)..(r.y1) : (i - y * size) \in (r.x0)..(r.x1)}
RectCells(r, size) == {y * size + x : x \in (r.x0)..(r.x1), y \in (r.y0)..(r.y1)}
LastRow(r, size, i) ==
  CHOOSE y \in RowsAt(r, size, i) : \A z \in RowsAt(r, size, i) : z <= y

(***************************************************************************)
(* climate.ts                                                              *)
(***************************************************************************)
Biome == [Ocean |-> 0, Beach |-> 1, Desert |-> 2, Savanna |-> 3, Grassland |-> 4,
          Shrubland |-> 5, TemperateForest |-> 6, BorealForest |-> 7,
          Rainforest |-> 8, Tundra |-> 9, Mountain |-> 10, Snow |-> 11]

clamp01(v) == IF Lt(v, Num(0)) THEN Num(0) ELSE IF Gt(v, Num(1)) THEN Num(1) ELSE v
rectAll(size) == [x0 |-> 0, y0 |-> 0, x1 |-> size - 1, y1 |-> size - 1]

\* lat = y / (size - 1): 0/0 is NaN
Latitude(y, size) == Div(Num(y), Num(size - 1))
\* pole = Math.abs(lat - 0.5) * 2
Pole(lat) == Mul(Abs(Sub(lat, Dec(500))), Num(2))

\* t = clamp01(1 - tempLapse * h - 0.6 * pole) at column x of row y
TemperatureAt(height, size, params, x, y) ==
  clamp01(Sub(Sub(Num(1), Mul(params.climate.tempLapse, Rd(height, y * size + x))),
              Mul(Dec(600), Pole(Latitude(y, size)))))

\* out[i] = t: the last visit of cell i is the one that stays
computeTemperature(height, size, params, out, rect) ==
  [i \in DOMAIN out |->
     IF i \in RectCells(rect, size)
     THEN Fround(TemperatureAt(height, size, params,
                               i - LastRow(rect, size, i) * size, LastRow(rect, size, i)))
     ELSE out[i]]

\* m = clamp01(m + 0.15 * Math.max(0, slope) - 0.10 * Math.max(0, -slope))
RainShadowed(m, slope) ==
  clamp01(Sub(Add(m, Mul(Dec(150), Max0(slope))), Mul(Dec(100), Max0(Neg(slope)))))
\* left = x > 0 ? height[y * size + (x - 1)] : h, and right likewise
LeftOf(height, size, x, y, h) == IF x > 0 THEN Rd(height, y * size + (x - 1)) ELSE h
RightOf(height, size, x, y, h) == IF x < size - 1 THEN Rd(height, y * size + (x + 1)) ELSE h

\* the value computeMoisture stores at column x of row y, from h = height[i]
\* and the two neighbours: m = clamp01(1 - h + moistureShift), slope = right - left
MoistureFrom(h, left, right, moistureShift) ==
  RainShadowed(clamp01(Add(Sub(Num(1), h), moistureShift)), Sub(right, left))

\* a moisture that would clamp once, after the rain-shadow term is added
MoistureAt_singleClamp(height, size, params, x, y) ==
  RainShadowed(Add(Sub(Num(1), Rd(height, y * size + x)), params.climate.moistureShift),
               Sub(RightOf(height, size, x, y, Rd(height, y * size + x)),
                   LeftOf(height, size, x, y, Rd(height, y * size + x))))

MoistureAt(height, size, params, x, y) ==
  MoistureFrom(Rd(height, y * size + x),
               LeftOf(height, size, x, y, Rd(height, y * size + x)),
               RightOf(height, size, x, y, Rd(height, y * size + x)),
               params.climate.moistureShift)

computeMoisture(height, size, params, out, rect) ==
  [i \in DOMAIN out |->
     IF i \in RectCells(rect, size)
     THEN Fround(MoistureAt(height, size, params,
                            i - LastRow(rect, size, i) * size, LastRow(rect, size, i)))
     ELSE out[i]]

\* a decision list that would test the mountain bands before the water bands
BiomeOf_mountainsFirst(h, t, m, sea) ==
  IF Gt(h, Dec(880)) /\ Lt(t, Dec(450)) THEN Biome.Snow
  ELSE IF Gt(h, Dec(840)) THEN Biome.Mountain
  ELSE IF Lt(h, sea) THEN Biome.Ocean
  ELSE IF Lt(h, Add(sea, Dec(20))) THEN Biome.Beach
  ELSE IF Lt(t, Dec(330))
       THEN (IF Lt(m, Dec(350)) THEN Biome.Tundra ELSE Biome.BorealForest)
  ELSE IF Lt(t, Dec(660))
       THEN (IF Lt(m, Dec(300)) THEN Biome.Shrubland
             ELSE IF Lt(m, Dec(550)) THEN Biome.Grassland
             ELSE Biome.TemperateForest)
  ELSE (IF Lt(m, Dec(280)) THEN Biome.Desert
        ELSE IF Lt(m, Dec(550)) THEN Biome.Savanna
        ELSE Biome.Rainforest)

\* a decision list whose water rule would reach up to the beach line
BiomeOf_oceanToBeachLine(h, t, m, sea) ==
  IF Lt(h, Add(sea, Dec(20))) THEN Biome.Ocean
  ELSE IF Gt(h, Dec(880)) /\ Lt(t, Dec(450)) THEN Biome.Snow
  ELSE IF Gt(h, Dec(840)) THEN Biome.Mountain
  ELSE IF Lt(t, Dec(330))
       THEN (IF Lt(m, Dec(350)) THEN Biome.Tundra ELSE Biome.BorealForest)
  ELSE IF Lt(t, Dec(660))
       THEN (IF Lt(m, Dec(300)) THEN Biome.Shrubland
             ELSE IF Lt(m, Dec(550)) THEN Biome.Grassland
             ELSE Biome.TemperateForest)
  ELSE (IF Lt(m, Dec(280)) THEN Biome.Desert
        ELSE IF Lt(m, Dec(550)) THEN Biome.Savanna
        ELSE Biome.Rainforest)

\* a decision list that would test the beach band after the mountain bands
BiomeOf_beachAfterPeaks(h, t, m, sea) ==
  IF Lt(h, sea) THEN Biome.Ocean
  ELSE IF Gt(h, Dec(880)) /\ Lt(t, Dec(450)) THEN Biome.Snow
  ELSE IF Gt(h, Dec(840)) THEN Biome.Mountain
  ELSE IF Lt(h, Add(sea, Dec(20))) THEN Biome.Beach
  ELSE IF Lt(t, Dec(330))
       THEN (IF Lt(m, Dec(350)) THEN Biome.Tundra ELSE Biome.BorealForest)
  ELSE IF Lt(t, Dec(660))
       THEN (IF Lt(m, Dec(300)) THEN Biome.Shrubland
             ELSE IF Lt(m, Dec(550)) THEN Biome.Grassland
             ELSE Biome.TemperateForest)
  ELSE (IF Lt(m, Dec(280)) THEN Biome.Desert
        ELSE IF Lt(m, Dec(550)) THEN Biome.Savanna
        ELSE Biome.Rainforest)

\* the ordered decision list of classifyBiomes for one cell
BiomeOf(h, t, m, sea) ==
  IF Lt(h, sea) THEN Biome.Ocean
  ELSE IF Lt(h, Add(sea, Dec(20))) THEN Biome.Beach
  ELSE IF Gt(h, Dec(880)) /\ Lt(t, Dec(450)) THEN Biome.Snow
  ELSE IF Gt(h, Dec(840)) THEN Biome.Mountain
  ELSE IF Lt(t, Dec(330))
       THEN (IF Lt(m, Dec(350)) THEN Biome.Tundra ELSE Biome.BorealForest)
  ELSE IF Lt(t, Dec(660))
       THEN (IF Lt(m, Dec(300)) THEN Biome.Shrubland
             ELSE IF Lt(m, Dec(550)) THEN Biome.Grassland
             ELSE Biome.TemperateForest)
  ELSE (IF Lt(m, Dec(280)) THEN Biome.Desert
        ELSE IF Lt(m, Dec(550)) THEN Biome.Savanna
        ELSE Biome.Rainforest)

classifyBiomes(height, temperature, moisture, size, params, out, rect) ==
  [i \in DOMAIN out |->
     IF i \in RectCells(rect, size)
     THEN BiomeOf(Rd(height, i), Rd(temperature, i), Rd(moisture, i),
                  params.climate.seaLevel)
     ELSE out[i]]

\* recomputeDerived(fields, size, params, rect?): rect ?? rectAll(size) is the caller's
Classified(fields, size, params, rect, t, m) ==
  [fields EXCEPT !.temperature = t, !.moisture = m,
                 !.biomes = classifyBiomes(fields.height, t, m, size, params,
                                           fields.biomes, rect)]
recomputeDerived(fields, size, params, rect) ==
  Classified(fields, size, params, rect,
             computeTemperature(fields.height, size, params, fields.temperature, rect),
             computeMoisture(fields.height, size, params, fields.moisture, rect))


(***************************************************************************)
(* computeRivers (worker.ts, lines 141-213)                                *)
(***************************************************************************)
\* the comparator (a, b) => height[b] - height[a]; a NaN result counts as 0
CompareLE0(height, a, b) == ~Gt(Sub(Rd(height, b), Rd(height, a)), Num(0))

\* merge of two sorted runs: the left element goes first while compare <= 0
RECURSIVE Merge(_, _, _)
Merge(height, l, r) ==
  IF l = <<>> THEN r
  ELSE IF r = <<>> THEN l
  ELSE IF CompareLE0(height, Head(l), Head(r))
       THEN <<Head(l)>> \o Merge(height, Tail(l), r)
       ELSE <<Head(r)>> \o Merge(height, l, Tail(r))

\* indices.sort(compare): a stable merge sort, split at the middle.  With
\* NaN-free heights every stable sort gives this order (height descending,
\* equal heights by ascending index).
RECURSIVE MergeSort(_, _)
MergeSort(height, seq) ==
  IF Len(seq) <= 1 THEN seq
  ELSE LET mid == Len(seq) \div 2
       IN  Merge(height, MergeSort(height, SubSeq(seq, 1, mid)),
                         MergeSort(height, SubSeq(seq, mid + 1, Len(seq))))

SortedIndices(height, n) == MergeSort(height, [k \in 1..n |-> k - 1])

\* the neighbours of cell i in the scan order dy = -1..1, dx = -1..1
NeighbourOffsets == <<<<-1, -1>>, <<0, -1>>, <<1, -1>>, <<-1, 0>>,
                      <<1, 0>>, <<-1, 1>>, <<0, 1>>, <<1, 1>>>>

\* a neighbour scan that would also take a neighbour whose drop equals the best
RECURSIVE downhillScan_lastTie(_, _, _, _, _, _)
downhillScan_lastTie(height, size, i, k, bestIdx, bestDrop) ==
  IF k > Len(NeighbourOffsets) THEN (IF Gt(bestDrop, Num(0)) THEN bestIdx ELSE -1)
  ELSE LET nx == CellX(i, size) + NeighbourOffsets[k][1]
           ny == CellY(i, size) + NeighbourOffsets[k][2]
           j  == ny * size + nx
           drop == Sub(Rd(height, i), Rd(height, j))
       IN  IF nx < 0 \/ ny < 0 \/ nx >= size \/ ny >= size
           THEN downhillScan_lastTie(height, size, i, k + 1, bestIdx, bestDrop)
           ELSE IF Ge(drop, bestDrop)
                THEN downhillScan_lastTie(height, size, i, k + 1, j, drop)
                ELSE downhillScan_lastTie(height, size, i, k + 1, bestIdx, bestDrop)

RECURSIVE downhillScan(_, _, _, _, _, _)
downhillScan(height, size, i, k, bestIdx, bestDrop) ==
  IF k > Len(NeighbourOffsets) THEN (IF Gt(bestDrop, Num(0)) THEN bestIdx ELSE -1)
  ELSE LET nx == CellX(i, size) + NeighbourOffsets[k][1]
           ny == CellY(i, size) + NeighbourOffsets[k][2]
           j  == ny * size + nx
           drop == Sub(Rd(height, i), Rd(height, j))
       IN  IF nx < 0 \/ ny < 0 \/ nx >= size \/ ny >= size
           THEN downhillScan(height, size, i, k + 1, bestIdx, bestDrop)
           ELSE IF Gt(drop, bestDrop)
                THEN downhillScan(height, size, i, k + 1, j, drop)
                ELSE downhillScan(height, size, i, k + 1, bestIdx, bestDrop)

\* downhill(i): the steepest strictly lower 8-neighbour, or -1.  For size < 0
\* every neighbour fails the test nx >= size.
downhill(height, size, i) ==
  IF size <= 0 THEN -1 ELSE downhillScan(height, size, i, 1, -1, Num(0))

\* the accumulate loop from position k of the processing order
RECURSIVE AccumLoop(_, _, _, _, _, _)
AccumLoop(height, size, sea, order, k, accum) ==
  IF k > Len(order) THEN accum
  ELSE LET i == order[k]
           z == Rd(height, i)
       IN  IF Le(z, sea)
           THEN AccumLoop(height, size, sea, order, k + 1, [accum EXCEPT ![i] = Num(0)])
           ELSE LET total == Add(accum[i], Num(1))
                    j     == downhill(height, size, i)
                    pushed == IF j >= 0
                              THEN [accum EXCEPT ![j] = Fround(Add(accum[j], total))]
                              ELSE accum
                IN  AccumLoop(height, size, sea, order, k + 1,
                              [pushed EXCEPT ![i] = Fround(total)])

\* the flow accumulation buffer at the end of the accumulate loop
FlowAccum(height, size, sea) ==
  LET n == size * size
  IN  AccumLoop(height, size, sea, SortedIndices(height, n), 1, ZeroArray(n))

\* a = accum[i] * invMax for invMax = maxA > 0 ? 1 / maxA : 1
InvMax(maxA) == IF Gt(maxA, Num(0)) THEN Div(Num(1), maxA) ELSE Num(1)
TimesInvMax(a, maxA) == Mul(a, InvMax(maxA))

\* a threshold test that would mark the cells at or below the threshold
RiverMask_below(height, rivers, size, sea, thr, accum) ==
  LET n    == size * size
      maxA == RunMax(accum, 0, n, Num(0))
  IN  [i \in DOMAIN rivers |->
         IF i >= n THEN rivers[i]
         ELSE IF Le(Rd(height, i), sea) THEN 0
         ELSE IF Le(TimesInvMax(accum[i], maxA), thr) THEN 1 ELSE 0]

\* normalise by the maximum and threshold
RiverMask(height, rivers, size, sea, thr, accum) ==
  LET n    == size * size
      maxA == RunMax(accum, 0, n, Num(0))
  IN  [i \in DOMAIN rivers |->
         IF i >= n THEN rivers[i]
         ELSE IF Le(Rd(height, i), sea) THEN 0
         ELSE IF Ge(TimesInvMax(accum[i], maxA), thr) THEN 1 ELSE 0]

\* dilateRivers(rivers, size, passes): each pass sets the cells that are set
\* or have a set neighbour to the left, right, above or below in the grid
IsSet(rivers, i) == i \in DOMAIN rivers /\ rivers[i] # 0
DilatePass(rivers, size) ==
  [i \in DOMAIN rivers |->
     IF /\ i \in Cells(size)
        /\ \/ IsSet(rivers, i)
           \/ (CellX(i, size) > 0 /\ IsSet(rivers, i - 1))
           \/ (CellX(i, size) + 1 < size /\ IsSet(rivers, i + 1))
           \/ (CellY(i, size) > 0 /\ IsSet(rivers, i - size))
           \/ (CellY(i, size) + 1 < size /\ IsSet(rivers, i + size))
     THEN 1 ELSE rivers[i]]
RECURSIVE dilateRivers(_, _, _)
dilateRivers(rivers, size, passes) ==
  IF passes <= 0 THEN rivers ELSE dilateRivers(DilatePass(rivers, size), size, passes - 1)

computeRivers(fields, size, params) ==
  LET sea == params.climate.seaLevel
  IN  [fields EXCEPT !.rivers =
         RiverMask(fields.height, fields.rivers, size, sea, params.riverThreshold,
                   FlowAccum(fields.height, size, sea))]

(***************************************************************************)
(* brush.ts.  Stroke centres are integers (the protocol's editAt(x, y));   *)
(* radius and strength are doubles.                                        *)
(***************************************************************************)
\* a strokeBounds that would forget the padding
strokeBounds_noPad(x, y, radius, size, pad) ==
  LET r == Max2(1, Floor(radius))
  IN  [x0 |-> Max2(x - r, 0),        y0 |-> Max2(y - r, 0),
       x1 |-> Min2(x + r, size - 1), y1 |-> Min2(y + r, size - 1)]

\* strokeBounds(x, y, radius, size, pad): x0, y0 are clamped with {min: 0}
\* only and x1, y1 with {max: size - 1} only
strokeBounds(x, y, radius, size, pad) ==
  LET r == Max2(1, Floor(radius))
  IN  [x0 |-> Max2(x - r - pad, 0),        y0 |-> Max2(y - r - pad, 0),
       x1 |-> Min2(x + r + pad, size - 1), y1 |-> Min2(y + r + pad, size - 1)]

\* the radii and squared distances whose falloff is computed once
KnownRadii == {Halves(n) : n \in 1..6}
\* falloff = 0.5 * (1 + Math.cos(piOverR * d)) for piOverR = Math.PI / radius
\* and d = Math.sqrt(d2), d2 <= radius * radius.  For radius 0, Math.PI / 0 is
\* Infinity and Infinity * 0 is NaN, so the falloff is NaN.
RECURSIVE FalloffOf(_, _, _)
FalloffTables ==
  [r \in KnownRadii |->
     [d2 \in 0..Floor(Mul(r, r)) |-> FalloffOf(r, d2, FALSE)]]
FalloffOf(radius, d2, cached) ==
  IF cached /\ radius \in KnownRadii /\ d2 \in 0..Floor(Mul(radius, radius))
  THEN FalloffTables[radius][d2]
  ELSE Mul(Dec(500), Add(Num(1), Cos(Mul(Div(PI, radius), Sqrt(Num(d2))))))

\* a falloff with the sign of the cosine flipped: 0 at the centre, 1 at the edge
falloff_flipped(radius, d2) == Sub(Num(1), FalloffOf(radius, d2, TRUE))

\* the falloff of radialAdd at squared distance d2 <= radius^2
falloff(radius, d2) == FalloffOf(radius, d2, TRUE)

\* r2 = radius * radius, cut off to a whole number: a whole number d2 is
\* `d2 > r2` exactly when it is above this
FloorR2(radius) == Floor(Mul(radius, radius))

\* the window of radialAdd
radialWindow(size, cx, cy, radius) ==
  [x0 |-> Max2(0, Floor(Sub(Num(cx), radius))),
   y0 |-> Max2(0, Floor(Sub(Num(cy), radius))),
   x1 |-> Min2(size - 1, Ceil(Add(Num(cx), radius))),
   y1 |-> Min2(size - 1, Ceil(Add(Num(cy), radius)))]

\* dx*dx + dy*dy of cell i from the centre
Dist2(i, size, cx, cy) ==
  (CellX(i, size) - cx) * (CellX(i, size) - cx) + (CellY(i, size) - cy) * (CellY(i, size) - cy)

\* the cells radialAdd writes: in its window and not `d2 > r2`
radialCells(size, cx, cy, radius) ==
  {i \in RectCells(radialWindow(size, cx, cy, radius), size) :
     ~(Dist2(i, size, cx, cy) > FloorR2(radius))}

\* radialAdd(field, size, cx, cy, radius, strength): field[idx] += strength * falloff
radialAdd(field, size, cx, cy, radius, strength) ==
  [i \in DOMAIN field |->
     IF i \in radialCells(size, cx, cy, radius)
     THEN Fround(Add(field[i], Mul(strength, falloff(radius, Dist2(i, size, cx, cy)))))
     ELSE field[i]]

\* clamp(v, {min, max}) on integers
clamp(v, min, max) == IF v < min THEN min ELSE IF v > max THEN max ELSE v

\* clampRegion(field, size, rect, min, max)
clampRegion(field, size, rect, min, max) ==
  [i \in DOMAIN field |->
     IF i \in RectCells(rect, size)
     THEN (IF Lt(field[i], min) THEN min ELSE IF Gt(field[i], max) THEN max ELSE field[i])
     ELSE field[i]]

\* sum += v over a sequence of reads, from 0
RECURSIVE SumSeq(_)
SumSeq(vs) ==
  IF vs = <<>> THEN Num(0) ELSE Add(SumSeq(SubSeq(vs, 1, Len(vs) - 1)), vs[Len(vs)])

\* smoothRegion, horizontal pass, row y: the window sum after priming
hPrime(field, size, x0, k, y) ==
  SumSeq([j \in 1..(2 * k + 1) |-> Rd(field, y * size + clamp(x0 - k + j - 1, 0, size - 1))])

\* ... and after the slide step of column x (x0 - 1 stands for "primed only")
RECURSIVE hSum(_, _, _, _, _, _)
hSum(field, size, x0, k, y, x) ==
  IF x < x0 THEN hPrime(field, size, x0, k, y)
  ELSE LET prev  == hSum(field, size, x0, k, y, x - 1)
           left  == x - k - 1
           right == x + k
           a == IF left >= 0
                THEN Sub(prev, Rd(field, y * size + clamp(left, 0, size - 1)))
                ELSE prev
       IN  IF right < size
           THEN Add(a, Rd(field, y * size + clamp(right, 0, size - 1)))
           ELSE a

\* the indices of tmp the vertical pass reads while priming column x
vPrimeIndices(size, y0, k, w, x) ==
  [j \in 1..(2 * k + 1) |-> (clamp(y0 - k + j - 1, 0, size - 1) - y0) * w + x]

vPrime(tmp, size, y0, k, w, x) ==
  LET idx == vPrimeIndices(size, y0, k, w, x)
  IN  SumSeq([j \in 1..(2 * k + 1) |-> Rd(tmp, idx[j])])

\* vertical pass, column x: the window sum after the slide step of row ry
RECURSIVE vSum(_, _, _, _, _, _, _, _)
vSum(tmp, size, y0, k, w, h, x, ry) ==
  IF ry < 0 THEN vPrime(tmp, size, y0, k, w, x)
  ELSE LET prev == vSum(tmp, size, y0, k, w, h, x, ry - 1)
           top  == ry - k - 1
           bot  == ry + k
           a == IF top >= 0 THEN Sub(prev, Rd(tmp, clamp(top, 0, h - 1) * w + x)) ELSE prev
       IN  IF bot < h THEN Add(a, Rd(tmp, clamp(bot, 0, h - 1) * w + x)) ELSE a

\* norm = 1 / (2 * k + 1)
BoxNorm(k) == Div(Num(1), Num(2 * k + 1))
\* field[idx] * (1 - alpha) + blurred * alpha
Blend(v, blurred, alpha) == Add(Mul(v, Sub(Num(1), alpha)), Mul(blurred, alpha))
\* the vertical pass at cell i: its loop, columns outside and rows inside,
\* visits i = y * size + (x0 + x) in the rows y from y1 down to y0 where x
\* is a column of the region, and blends in place each time
RECURSIVE BlendVisits(_, _, _, _, _, _, _, _, _, _)
BlendVisits(v, tmp, size, bounds, k, w, h, alpha, i, y) ==
  IF y < bounds.y0 THEN v
  ELSE IF (i - y * size - bounds.x0) \in 0..(w - 1)
       THEN BlendVisits(Fround(Blend(v, Mul(vSum(tmp, size, bounds.y0, k, w, h,
                                                 i - y * size - bounds.x0, y - bounds.y0),
                                            BoxNorm(k)),
                                     alpha)),
                        tmp, size, bounds, k, w, h, alpha, i, y - 1)
       ELSE BlendVisits(v, tmp, size, bounds, k, w, h, alpha, i, y - 1)

\* smoothRegion(field, size, bounds, kernelRadius, alpha).  Yields the field,
\* whether `new Float32Array(w * h)` threw a RangeError (w * h < 0) and
\* whether a read of tmp fell outside it.
HorizontalPass(field, size, x0, y0, k, w, h) ==
  [t \in 0..(w * h - 1) |->
     Fround(Mul(hSum(field, size, x0, k, y0 + (t \div w), x0 + (t % w)), BoxNorm(k)))]
VerticalPass(field, size, bounds, k, w, h, alpha, tmp) ==
  [field |-> [i \in DOMAIN field |->
                IF i \in RectCells(bounds, size)
                THEN BlendVisits(field[i], tmp, size, bounds, k, w, h, alpha, i, bounds.y1)
                ELSE field[i]],
   threw |-> FALSE,
   oob   |-> \E x \in 0..(w - 1) : \E j \in 1..(2 * k + 1) :
               vPrimeIndices(size, bounds.y0, k, w, x)[j] \notin 0..(w * h - 1)]
SmoothPasses(field, size, bounds, k, w, h, alpha) ==
  IF w * h < 0
  THEN [field |-> field, threw |-> TRUE, oob |-> FALSE]
  ELSE VerticalPass(field, size, bounds, k, w, h, alpha,
                    HorizontalPass(field, size, bounds.x0, bounds.y0, k, w, h))
smoothRegion(field, size, bounds, kernelRadius, alpha) ==
  SmoothPasses(field, size, bounds, Max2(1, Floor(kernelRadius)),
               bounds.x1 - bounds.x0 + 1, bounds.y1 - bounds.y0 + 1, alpha)

\* the stamp of raise / lower / rain: radialAdd, then clampRegion to [0, 1]
StampClamped(field, size, cx, cy, radius, s, bounds) ==
  clampRegion(radialAdd(field, size, cx, cy, radius, s), size, bounds, Num(0), Num(1))
\* the smooth case: smoothRegion, then clampRegion unless the allocation threw
SmoothResult(height, moisture, size, bounds, sm) ==
  [bounds |-> bounds,
   height |-> IF sm.threw THEN height
              ELSE clampRegion(sm.field, size, bounds, Num(0), Num(1)),
   moisture |-> moisture, threw |-> sm.threw, oob |-> ~sm.threw /\ sm.oob]
StrokeResult(bounds, hgt, mst) ==
  [bounds |-> bounds, height |-> hgt, moisture |-> mst, threw |-> FALSE, oob |-> FALSE]

\* an applyBrush whose rain case would stamp the height when it is given no
\* moisture array
BrushWithin_rainOnHeight(height, moisture, size, cx, cy, brush, bounds) ==
  CASE brush.kind \in {"raise", "lower"} ->
         StrokeResult(bounds,
                   StampClamped(height, size, cx, cy, brush.radius,
                           IF brush.kind = "raise" THEN brush.strength
                           ELSE Neg(brush.strength), bounds),
                   moisture)
    [] brush.kind = "smooth" ->
         SmoothResult(height, moisture, size, bounds,
                  smoothRegion(height, size, bounds, brush.radius, brush.strength))
    [] brush.kind = "rain" ->
         IF moisture # Undefined
         THEN StrokeResult(bounds, height,
                        StampClamped(moisture, size, cx, cy, brush.radius, brush.strength,
                                bounds))
         ELSE StrokeResult(bounds,
                        StampClamped(height, size, cx, cy, brush.radius, brush.strength,
                                bounds),
                        moisture)
applyBrush_rainOnHeight(height, moisture, size, cx, cy, brush) ==
  BrushWithin_rainOnHeight(height, moisture, size, cx, cy, brush,
                           strokeBounds(cx, cy, brush.radius, size,
                                        IF brush.kind = "smooth" THEN 2 ELSE 1))

\* the switch on brush.kind, bounds being the stroke bounds computed first
BrushWithin(height, moisture, size, cx, cy, brush, bounds) ==
  CASE brush.kind \in {"raise", "lower"} ->
         StrokeResult(bounds,
                   StampClamped(height, size, cx, cy, brush.radius,
                           IF brush.kind = "raise" THEN brush.strength
                           ELSE Neg(brush.strength), bounds),
                   moisture)
    [] brush.kind = "smooth" ->
         SmoothResult(height, moisture, size, bounds,
                  smoothRegion(height, size, bounds, brush.radius, brush.strength))
    [] brush.kind = "rain" ->
         IF moisture # Undefined
         THEN StrokeResult(bounds, height,
                        StampClamped(moisture, size, cx, cy, brush.radius, brush.strength,
                                bounds))
         ELSE StrokeResult(bounds, height, moisture)

\* applyBrush(height, moisture, size, cx, cy, brush).  Yields the returned
\* bounds, the two arrays, and whether the call threw / read outside tmp.
applyBrush(height, moisture, size, cx, cy, brush) ==
  BrushWithin(height, moisture, size, cx, cy, brush,
              strokeBounds(cx, cy, brush.radius, size,
                           IF brush.kind = "smooth" THEN 2 ELSE 1))

(***************************************************************************)
(* worker.ts: the state held inside the worker and its message handler.    *)
(* The handler runs to completion on each message, so one request is one   *)
(* step.  An exception thrown inside the handler ends that run; the worker *)
(* stays alive and takes the next message.                                 *)
(***************************************************************************)
allocateFields(n) ==
  [height |-> ZeroArray(n * n), temperature |-> ZeroArray(n * n),
   moisture |-> ZeroArray(n * n), rivers |-> ZeroBytes(n * n),
   biomes |-> ZeroBytes(n * n)]

\* an ensureSize that would allocate once and keep those buffers for good
ensureSize_allocateOnce(w, newSize) ==
  IF w.fields = Undefined
  THEN [w EXCEPT !.size = newSize, !.fields = allocateFields(newSize)]
  ELSE [w EXCEPT !.size = newSize]

\* `w` is the worker's state [size, seed, params, fields]
ensureSize(w, newSize) ==
  IF w.fields = Undefined \/ w.size # newSize
  THEN [w EXCEPT !.size = newSize, !.fields = allocateFields(newSize)]
  ELSE w

postProgress(phase, pct) == [t |-> "progress", phase |-> phase, pct |-> pct]

\* postMessage structured-clones the message: the result carries a snapshot
postResult(w) == [t |-> "result", fields |-> w.fields]

\* a fullRecompute that would leave the height buffer as it finds it
fullRecomputeFields_keepHeight(w) ==
  computeRivers(recomputeDerived(w.fields, w.size, w.params, rectAll(w.size)),
                w.size, w.params)

\* the three phases of fullRecompute on the worker's buffers
fullRecomputeFields(w) ==
  computeRivers(
    recomputeDerived(
      [w.fields EXCEPT !.height = generateHeightField(w.fields.height, w.size, w.seed,
                                                      w.params, DEFAULT_BASE_FREQ,
                                                      [islandMask |-> USE_ISLAND_MASK])],
      w.size, w.params, rectAll(w.size)),
    w.size, w.params)

\* fullRecompute(): the worker afterwards and the messages posted, in order
fullRecompute(w) ==
  [worker |-> [w EXCEPT !.fields = fullRecomputeFields(w)],
   posted |-> <<postProgress("height", 0), postProgress("height", 1),
                postProgress("climate", 0), postProgress("climate", 1),
                postProgress("rivers", 0), postProgress("rivers", 1)>>]

\* a partialRecompute that would skip the river pass
partialRecompute_keepRivers(w, dirty) ==
  [w EXCEPT !.fields = recomputeDerived(w.fields, w.size, w.params, dirty)]

partialRecompute(w, dirty) ==
  [w EXCEPT !.fields = computeRivers(recomputeDerived(w.fields, w.size, w.params, dirty),
                                     w.size, w.params)]

\* what one run of the handler leaves behind
Outcome(w, posted, threw, oob, dirty) ==
  [worker |-> w, posted |-> posted, threw |-> threw, oob |-> oob, dirty |-> dirty]

\* case "brush" after partialRecompute(dirty): w1 is the worker it left
brushPosted(w1, b) == Outcome(w1, <<postResult(w1)>>, FALSE, b.oob, b.bounds)

\* case "brush" from the return of applyBrush on: b is what applyBrush left
brushOutcome(w, b) ==
  IF b.threw
  THEN Outcome(w, <<>>, TRUE, FALSE, b.bounds)
  ELSE brushPosted(partialRecompute([w EXCEPT !.fields.height = b.height,
                                              !.fields.moisture = b.moisture],
                                    b.bounds), b)

\* ctx.onmessage, case "brush".  `fields.height` throws a TypeError while
\* fields is undefined; a RangeError of smoothRegion leaves the handler before
\* anything was written or posted.
onmessageBrush(w, msg) ==
  IF w.fields = Undefined
  THEN Outcome(w, <<>>, TRUE, FALSE, Undefined)
  ELSE brushOutcome(w, applyBrush(w.fields.height, w.fields.moisture, w.size,
                                  msg.x, msg.y, msg.brush))

\* the end of case "init" and case "recompute": r is what fullRecompute()
\* left, postResult() follows the six progress messages
fullOutcome(r) ==
  Outcome(r.worker, Append(r.posted, postResult(r.worker)), FALSE, FALSE, Undefined)

\* ctx.onmessage
onmessage(w, msg) ==
  CASE msg.t = "init" ->
         fullOutcome(fullRecompute(ensureSize([w EXCEPT !.params = msg.params,
                                                        !.seed = msg.seed],
                                              msg.params.size)))
    [] msg.t = "recompute" ->
         fullOutcome(fullRecompute(ensureSize([w EXCEPT !.params = msg.params],
                                              msg.params.size)))
    [] msg.t = "brush" -> onmessageBrush(w, msg)

\* the worker as the module leaves it: size = 512, seed = 1, params and
\* fields not yet assigned
WorkerInit == [size |-> 2^9, seed |-> 1, params |-> Undefined, fields |-> Undefined]

(***************************************************************************)
(* The requests of the model                                               *)
(***************************************************************************)
MaxRequests == 3

BrushOf(kind, radius, strength) == [kind |-> kind, radius |-> radius, strength |-> strength]
BrushMsg(x, y, brush) == [t |-> "brush", x |-> x, y |-> y, brush |-> brush]
BrushMsgs ==
  {BrushMsg(2, 2, BrushOf("raise", Num(2), Dec(500))),
   BrushMsg(3, 0, BrushOf("lower", Num(2), Dec(500))),
   BrushMsg(4, 2, BrushOf("smooth", Num(1), Dec(500))),
   BrushMsg(1, 1, BrushOf("rain", Num(2), Dec(500))),
   BrushMsg(-1, 2, BrushOf("raise", Num(1), Dec(500))),
   BrushMsg(9, 1, BrushOf("smooth", Num(1), Dec(500))),
   BrushMsg(2, 5, BrushOf("smooth", Num(1), Dec(500)))}

VARIABLES
  worker,     \* [size, seed, params, fields]: the worker's module state
  requests,   \* how many requests have been delivered
  results,    \* the requests whose result was posted, in posting order
  emitted,    \* the messages posted while handling the latest request
  last,       \* the latest request and how its run ended
  initSeed,   \* the seed of the most recent init request, 1 before any
  pristine,   \* no brush has written since the last full recompute
  probe,      \* input and output of a function studied on its own
  bridge,     \* the closure of createWorkerBridge on the main thread
  wire        \* the messages in flight between the main thread and the worker

vars == <<worker, requests, results, emitted, last, initSeed, pristine, probe,
          bridge, wire>>

Init ==
  /\ worker = WorkerInit
  /\ requests = 0
  /\ results = <<>>
  /\ emitted = <<>>
  /\ last = Undefined
  /\ initSeed = 1
  /\ pristine = FALSE
  /\ bridge = Undefined
  /\ wire = Undefined
  /\ probe = Undefined

\* one message delivered to ctx.onmessage
Deliver(msg) ==
  /\ requests < MaxRequests
  /\ \E r \in {onmessage(worker, msg)} :
       /\ worker' = r.worker
       /\ requests' = requests + 1
       /\ results' = IF \E k \in DOMAIN r.posted : r.posted[k].t = "result"
                     THEN Append(results, requests + 1) ELSE results
       /\ emitted' = r.posted
       /\ last' = [id |-> requests + 1, msg |-> msg, threw |-> r.threw, oob |-> r.oob,
                   dirty |-> r.dirty, before |-> worker, afterFull |-> pristine]
       /\ initSeed' = IF msg.t = "init" THEN msg.seed ELSE initSeed
       /\ pristine' = IF msg.t = "brush" THEN pristine /\ r.threw ELSE TRUE
  /\ UNCHANGED <<probe, bridge, wire>>

RequestInit ==
  \E sd \in Seeds : \E ps \in ParamsSet :
    Deliver([t |-> "init", seed |-> sd, params |-> ps])

RequestRecompute ==
  \E ps \in ParamsSet : Deliver([t |-> "recompute", params |-> ps])

RequestBrush == \E msg \in BrushMsgs : Deliver(msg)

Next == RequestInit \/ RequestRecompute \/ RequestBrush

Spec == Init /\ [][Next]_vars

(***************************************************************************)
(* Properties of the worker protocol (specification Spec)                  *)
(***************************************************************************)
ResultCount == Cardinality({k \in DOMAIN emitted : emitted[k].t = "result"})
HasResult == emitted # <<>> /\ emitted[Len(emitted)].t = "result"
ResultFields == emitted[Len(emitted)].fields
IsBrush == requests > 0 /\ last.msg.t = "brush"
IsFull == requests > 0 /\ last.msg.t \in {"init", "recompute"}
SixProgress ==
  <<postProgress("height", 0), postProgress("height", 1),
    postProgress("climate", 0), postProgress("climate", 1),
    postProgress("rivers", 0), postProgress("rivers", 1)>>

\* C1: every request delivered to the handler, a brush before any init or
\* recompute included, gets exactly one result message, and that result is
\* the last message emitted for the request.
C1_OneTerminalResult ==
  requests > 0 => ResultCount = 1 /\ HasResult

\* C2: results are emitted in the order their requests were accepted: the
\* k-th result emitted belongs to the k-th request, none skipped.
C2_ResultsInRequestOrder ==
  \A k \in DOMAIN results : results[k] = k

\* C3: an init or recompute request emits the six progress messages
\* (height 0, 1; climate 0, 1; rivers 0, 1) in order and then the result
\* carrying the finished buffers; a brush request emits only the result,
\* carrying the buffers after brush, restricted climate pass and river pass.
C3_MessagePattern ==
  /\ IsFull => emitted = Append(SixProgress, postResult(worker))
  /\ IsBrush => emitted = <<postResult(worker)>>

\* C4: after a brush applied to fields left by a full recompute, the
\* temperature, moisture and biomes of the emitted result equal, at every
\* cell, the full-grid climate derivation of the post-edit height.
C4_PartialEqualsFull ==
  (IsBrush /\ HasResult /\ last.afterFull) =>
    LET full == recomputeDerived(ResultFields, worker.size, worker.params,
                                 rectAll(worker.size))
    IN  /\ ResultFields.temperature = full.temperature
        /\ ResultFields.moisture = full.moisture
        /\ ResultFields.biomes = full.biomes

\* C5: a recompute(params) request emits what init(s, params) emits on a
\* fresh worker, s being the seed of the most recent init (1 if none): the
\* result does not depend on the previous buffers or on brush edits.
C5_RecomputeAsInit ==
  (requests > 0 /\ last.msg.t = "recompute") =>
    emitted = onmessage(WorkerInit, [t |-> "init", seed |-> initSeed,
                                     params |-> last.msg.params]).posted

\* a recompute that reuses buffers a brush has written to, after an init
\* with a seed other than the initial one
C5_Witness ==
  /\ requests > 0 /\ last.msg.t = "recompute"
  /\ ~last.afterFull
  /\ last.before.fields # Undefined
  /\ last.before.size = last.msg.params.size
  /\ last.before.fields.height # ResultFields.height
  /\ initSeed # WorkerInit.seed

\* C6: in every emitted result every cell with height <= seaLevel has
\* rivers = 0, and every rivers value is 0 or 1.
C6_RiverOceanConsistency ==
  HasResult =>
    \A i \in DOMAIN ResultFields.rivers :
      /\ ResultFields.rivers[i] \in {0, 1}
      /\ Le(ResultFields.height[i], worker.params.climate.seaLevel)
           => ResultFields.rivers[i] = 0

\* a brush has pushed a cell that carried a river to or below sea level
C6_Witness ==
  /\ IsBrush /\ HasResult
  /\ \E i \in DOMAIN ResultFields.rivers :
       /\ last.before.fields.rivers[i] = 1
       /\ Le(ResultFields.height[i], worker.params.climate.seaLevel)

CentreOutside(msg, size) ==
  msg.x < 0 \/ msg.x >= size \/ msg.y < 0 \/ msg.y >= size

\* C10: a brush request whose centre lies outside [0,size) reads and writes
\* no array out of range, allocates no buffer of negative length, raises no
\* exception and completes with its result.
C10_OutsideCentreHandled ==
  (IsBrush /\ last.before.fields # Undefined
     /\ CentreOutside(last.msg, last.before.size)) =>
    ~last.threw /\ ~last.oob /\ ResultCount = 1 /\ HasResult

FieldNames == {"height", "temperature", "moisture", "rivers", "biomes"}
Handled == requests > 0 /\ ~last.threw
\* the size of the params the worker accepted last: those of this request if
\* it is an init or a recompute, else those it held when the brush arrived
AcceptedSize == IF IsFull THEN last.msg.params.size ELSE last.before.params.size

\* C18: after every request the handler completed, init, recompute or
\* brush, the worker holds five arrays height, temperature, moisture,
\* rivers and biomes of one length, size * size for the worker's size, and
\* that size is the size of the params accepted last.
C18_ArraysMatchSize ==
  Handled =>
    /\ worker.fields # Undefined
    /\ \A k \in FieldNames : DOMAIN worker.fields[k] = 0..(worker.size * worker.size - 1)
    /\ worker.size = AcceptedSize
    /\ worker.params.size = AcceptedSize

\* an init or recompute whose params have another size than the buffers the
\* worker held: the five arrays were reallocated
C18_Witness ==
  /\ Handled /\ IsFull
  /\ last.before.fields # Undefined
  /\ last.before.size # worker.size
  /\ \A k \in FieldNames : DOMAIN worker.fields[k] # DOMAIN last.before.fields[k]

(***************************************************************************)
(* applyBrush on its own (specification SpecBrush): a worker initialised   *)
(* with seed 1, then one call of applyBrush on its buffers for each        *)
(* centre, in or out of the grid, and each brush.                          *)
(***************************************************************************)
MaxOut == 5

ProbeBrushes ==
  {BrushOf(kind, radius, Dec(500)) :
     kind \in {"raise", "lower", "smooth", "rain"},
     radius \in {Halves(1), Num(1), Halves(3), Num(2)}}

InitialisedWorkers ==
  {onmessage(WorkerInit, [t |-> "init", seed |-> 1, params |-> ps]).worker :
     ps \in ParamsSet}

InitBrush ==
  /\ worker \in InitialisedWorkers
  /\ requests = 0
  /\ results = <<>>
  /\ emitted = <<>>
  /\ last = Undefined
  /\ initSeed = 1
  /\ pristine = TRUE
  /\ bridge = Undefined
  /\ wire = Undefined
  /\ \E cx \in (-MaxOut)..(worker.size - 1 + MaxOut) :
       \E cy \in (-MaxOut)..(worker.size - 1 + MaxOut) :
         \E brush \in ProbeBrushes :
           probe = [stage |-> "in", cx |-> cx, cy |-> cy, brush |-> brush,
                    out |-> Undefined]

ProbeApplyBrush ==
  /\ probe # Undefined /\ probe.stage = "in"
  /\ probe' = [probe EXCEPT
                 !.stage = "out",
                 !.out = applyBrush(worker.fields.height, worker.fields.moisture,
                                    worker.size, probe.cx, probe.cy, probe.brush)]
  /\ UNCHANGED <<worker, requests, results, emitted, last, initSeed, pristine, bridge, wire>>

NextBrush == ProbeApplyBrush

SpecBrush == InitBrush /\ [][NextBrush]_vars

BrushDone == probe # Undefined /\ probe.stage = "out"
CentreInside == probe.cx \in 0..(worker.size - 1) /\ probe.cy \in 0..(worker.size - 1)
PadOf(brush) == IF brush.kind = "smooth" THEN 2 ELSE 1

\* the grid cells within distance radius of the centre
DiskCells ==
  {i \in Cells(worker.size) :
     Dist2(i, worker.size, probe.cx, probe.cy) <= FloorR2(probe.brush.radius)}

\* ... together with their padding ring, intersected with the grid
PaddedDiskCells ==
  {i \in Cells(worker.size) :
     \E j \in DiskCells :
       /\ AbsInt(CellX(i, worker.size) - CellX(j, worker.size)) <= PadOf(probe.brush)
       /\ AbsInt(CellY(i, worker.size) - CellY(j, worker.size)) <= PadOf(probe.brush)}

ChangedCells ==
  {i \in Cells(worker.size) :
     \/ probe.out.height[i] # worker.fields.height[i]
     \/ probe.out.moisture[i] # worker.fields.moisture[i]}

\* C8: for every brush kind, centre inside the grid and radius > 0, the
\* rectangle returned by applyBrush contains every grid cell within distance
\* radius of the centre together with its padding ring (1 cell, 2 for
\* smooth); every cell whose height or moisture changed lies inside it.
C8_RectContainsStroke ==
  (BrushDone /\ CentreInside /\ Gt(probe.brush.radius, Num(0))) =>
    /\ PaddedDiskCells \subseteq RectCells(probe.out.bounds, worker.size)
    /\ ChangedCells \subseteq RectCells(probe.out.bounds, worker.size)

\* a stroke inside the grid that changed cells and whose rectangle is
\* neither the whole grid nor just the disk
C8_Witness ==
  /\ BrushDone /\ CentreInside
  /\ ChangedCells # {}
  /\ RectCells(probe.out.bounds, worker.size) # Cells(worker.size)
  /\ DiskCells # PaddedDiskCells

\* C9: the rectangle returned by applyBrush / strokeBounds is clamped to
\* the grid for every centre, in or out of the grid, and every radius:
\* 0 <= x0 <= x1 <= size-1 and 0 <= y0 <= y1 <= size-1.
C9_RectClamped ==
  BrushDone =>
    /\ 0 <= probe.out.bounds.x0 /\ probe.out.bounds.x0 <= probe.out.bounds.x1
    /\ probe.out.bounds.x1 <= worker.size - 1
    /\ 0 <= probe.out.bounds.y0 /\ probe.out.bounds.y0 <= probe.out.bounds.y1
    /\ probe.out.bounds.y1 <= worker.size - 1

(***************************************************************************)
(* generateHeightField on its own (specification SpecNoise): one call on a *)
(* fresh buffer for each size, seed and noise parameter set.               *)
(***************************************************************************)
MaxNoiseSize == 5

\* (three octaves of lacunarity 32 would take the frequency out of the
\* number range of the model)
NoiseParamsSet ==
  {np \in [octaves : 1..3, lacunarity : {Num(2), Num(32)}, gain : {Dec(500)},
           warp : {Num(0), Num(4)}] :
     np.octaves < 3 \/ np.lacunarity = Num(2)}

InitNoise ==
  /\ worker = WorkerInit
  /\ requests = 0
  /\ results = <<>>
  /\ emitted = <<>>
  /\ last = Undefined
  /\ initSeed = 1
  /\ pristine = FALSE
  /\ bridge = Undefined
  /\ wire = Undefined
  /\ \E n \in 1..MaxNoiseSize : \E sd \in Seeds : \E np \in NoiseParamsSet :
       probe = [stage |-> "in", size |-> n, seed |-> sd, noise |-> np,
                raw |-> Undefined, out |-> Undefined]

ProbeGenerate ==
  /\ probe # Undefined /\ probe.stage = "in"
  /\ probe' = [probe EXCEPT
                 !.stage = "out",
                 !.raw = RawSamples(NoiseFor(probe.seed), probe.size, probe.noise,
                                    DEFAULT_BASE_FREQ),
                 !.out = generateHeightField(ZeroArray(probe.size * probe.size),
                                             probe.size, probe.seed,
                                             [noise |-> probe.noise],
                                             DEFAULT_BASE_FREQ, Undefined)]
  /\ UNCHANGED <<worker, requests, results, emitted, last, initSeed, pristine, bridge, wire>>

NextNoise == ProbeGenerate

SpecNoise == InitNoise /\ [][NextNoise]_vars

NoiseDone == probe # Undefined /\ probe.stage = "out"
RawAllEqual == \A i, j \in DOMAIN probe.raw : probe.raw[i] = probe.raw[j]

\* C7: after generateHeightField (size > 0, octaves >= 1) every height lies
\* in [0,1] and none is NaN; when the raw samples are not all equal the
\* cell of the minimum raw sample is exactly 0 and the cell of the maximum
\* exactly 1; when they are all equal the field is uniform and finite.
C7_HeightNormalised ==
  NoiseDone =>
    /\ \A i \in DOMAIN probe.out :
         ~IsNaN(probe.out[i]) /\ Ge(probe.out[i], Num(0)) /\ Le(probe.out[i], Num(1))
    /\ ~RawAllEqual =>
         \A i \in DOMAIN probe.raw :
           /\ (\A j \in DOMAIN probe.raw : ~Gt(probe.raw[i], probe.raw[j]))
                => probe.out[i] = Num(0)
           /\ (\A j \in DOMAIN probe.raw : ~Lt(probe.raw[i], probe.raw[j]))
                => probe.out[i] = Num(1)
    /\ RawAllEqual =>
         \A i, j \in DOMAIN probe.out : probe.out[i] = probe.out[j]

(***************************************************************************)
(* Malformed requests (specification SpecMalformed): a worker initialised  *)
(* with seed 1 takes one request whose brush radius is <= 0 or whose noise *)
(* parameters have octaves = 0.                                            *)
(***************************************************************************)
MalformedBrushes ==
  {BrushOf(kind, radius, Dec(500)) :
     kind \in {"raise", "lower", "smooth", "rain"},
     radius \in {Num(0), Halves(-1), Num(-1), Halves(-3)}}

InitMalformed ==
  /\ worker \in InitialisedWorkers
  /\ requests = 0
  /\ results = <<>>
  /\ emitted = <<>>
  /\ last = Undefined
  /\ initSeed = 1
  /\ pristine = TRUE
  /\ bridge = Undefined
  /\ wire = Undefined
  /\ probe = Undefined

MalformedBrush ==
  /\ requests = 0
  /\ \E cx \in 0..(worker.size - 1) : \E cy \in 0..(worker.size - 1) :
       \E brush \in MalformedBrushes : Deliver(BrushMsg(cx, cy, brush))

MalformedFull ==
  /\ requests = 0
  /\ \E ps \in ParamsSet : \E sd \in Seeds :
       \/ Deliver([t |-> "init", seed |-> sd, params |-> ZeroOctaves(ps)])
       \/ Deliver([t |-> "recompute", params |-> ZeroOctaves(ps)])

NextMalformed == MalformedBrush \/ MalformedFull

SpecMalformed == InitMalformed /\ [][NextMalformed]_vars

Finite(v) == ~IsNaN(v) /\ ~IsInf(v)
AllFinite(arr) == \A i \in DOMAIN arr : Finite(arr[i])

\* C11: a brush request with radius <= 0 and a full recompute with
\* octaves = 0 each either signal an error or leave every value of height,
\* temperature and moisture a finite number.
C11_MalformedFinite ==
  (requests > 0 /\ ~last.threw) =>
    /\ AllFinite(worker.fields.height)
    /\ AllFinite(worker.fields.temperature)
    /\ AllFinite(worker.fields.moisture)

(***************************************************************************)
(* Degenerate sizes (specification SpecDegenerate): each generation and    *)
(* derivation function called once with size <= 0 on buffers of the length *)
(* allocateFields(size) gives them, n * n.                                 *)
(***************************************************************************)
MaxNegSize == 2

\* the cells the loops `for (i = 0; i < n; i++)` of computeRivers assign,
\* n = size * size
riverWrites(rivers, size) == {i \in DOMAIN rivers : i < size * size}
\* the cells the double loop of generateHeightField assigns
heightWrites(out, size) == Cells(size) \cap DOMAIN out
\* the cells the double loop over rect of a climate pass assigns
rectWrites(out, size, rect) == RectCells(rect, size) \cap DOMAIN out

DegenerateFields(size) ==
  {[height |-> h, temperature |-> h, moisture |-> h, rivers |-> r, biomes |-> r] :
     h \in [0..(size * size - 1) -> {Num(0), Dec(500), Num(1)}],
     r \in {[i \in 0..(size * size - 1) |-> 0], [i \in 0..(size * size - 1) |-> 1]}}

InitDegenerate ==
  /\ worker = WorkerInit
  /\ requests = 0
  /\ results = <<>>
  /\ emitted = <<>>
  /\ last = Undefined
  /\ initSeed = 1
  /\ pristine = FALSE
  /\ bridge = Undefined
  /\ wire = Undefined
  /\ \E n \in (-MaxNegSize)..0 : \E f \in DegenerateFields(n) : \E ps \in ParamsSet :
       probe = [stage |-> "in", size |-> n, fields |-> f,
                params |-> [ps EXCEPT !.size = n], out |-> Undefined,
                writes |-> Undefined]

ProbeDegenerate ==
  /\ probe # Undefined /\ probe.stage = "in"
  /\ probe' =
       [probe EXCEPT
          !.stage = "out",
          !.out =
            [height |-> generateHeightField(probe.fields.height, probe.size, 1,
                                            probe.params, DEFAULT_BASE_FREQ, Undefined),
             temperature |-> computeTemperature(probe.fields.height, probe.size,
                                                probe.params, probe.fields.temperature,
                                                rectAll(probe.size)),
             moisture |-> computeMoisture(probe.fields.height, probe.size, probe.params,
                                          probe.fields.moisture, rectAll(probe.size)),
             biomes |-> classifyBiomes(probe.fields.height, probe.fields.temperature,
                                       probe.fields.moisture, probe.size, probe.params,
                                       probe.fields.biomes, rectAll(probe.size)),
             rivers |-> computeRivers(probe.fields, probe.size, probe.params).rivers],
          !.writes =
            [height |-> heightWrites(probe.fields.height, probe.size),
             temperature |-> rectWrites(probe.fields.temperature, probe.size,
                                        rectAll(probe.size)),
             moisture |-> rectWrites(probe.fields.moisture, probe.size,
                                     rectAll(probe.size)),
             biomes |-> rectWrites(probe.fields.biomes, probe.size, rectAll(probe.size)),
             rivers |-> riverWrites(probe.fields.rivers, probe.size)]]
  /\ UNCHANGED <<worker, requests, results, emitted, last, initSeed, pristine, bridge, wire>>

NextDegenerate == ProbeDegenerate

SpecDegenerate == InitDegenerate /\ [][NextDegenerate]_vars

DegenerateDone == probe # Undefined /\ probe.stage = "out"

\* C12: for every size <= 0, generateHeightField, computeTemperature,
\* computeMoisture, classifyBiomes and computeRivers are no-ops: none of
\* them writes any element of any field array (so every array is as before).
C12_DegenerateNoOps ==
  DegenerateDone =>
    \A k \in {"height", "temperature", "moisture", "biomes", "rivers"} :
      probe.writes[k] = {} /\ probe.out[k] = probe.fields[k]

(***************************************************************************)
(* The climate passes on their own (specification SpecClimate): one call   *)
(* of computeTemperature and one of classifyBiomes on given arrays, for    *)
(* each size from 1 up, rectangle, sea level and lapse rate.               *)
(***************************************************************************)
MaxClimateSize == 3

\* values a Float32Array can hold, in thousandths
HeightSamples == <<0, 290, 300, 500, 850, 900, 930, 1000>>
ClimateSamples == <<200, 500, 800>>

\* the array of n * n elements that runs through the samples from offset k
SampleField(vals, k, n) ==
  [i \in 0..(n * n - 1) |-> Fround(Dec(vals[((k + i) % Len(vals)) + 1]))]

ClimateRects(n) == {rectAll(n), [x0 |-> n - 1, y0 |-> 0, x1 |-> n - 1, y1 |-> n - 1]}

InitClimate ==
  /\ worker = WorkerInit
  /\ requests = 0
  /\ results = <<>>
  /\ emitted = <<>>
  /\ last = Undefined
  /\ initSeed = 1
  /\ pristine = FALSE
  /\ bridge = Undefined
  /\ wire = Undefined
  /\ \E n \in 1..MaxClimateSize : \E k \in 0..(Len(HeightSamples) - 1) :
       \E kt \in 0..(Len(ClimateSamples) - 1) : \E rect \in ClimateRects(n) :
         \E sea \in {Dec(300), Dec(890), Dec(900), Dec(950)} :
           \E lapse \in {Num(0), Dec(500), Num(1), Num(2)} :
             probe = [stage |-> "in", size |-> n, rect |-> rect,
                      height |-> SampleField(HeightSamples, k, n),
                      temperature |-> SampleField(ClimateSamples, kt, n),
                      moisture |-> SampleField(ClimateSamples, kt + k, n),
                      params |-> [ParamsA EXCEPT !.size = n,
                                                 !.climate.seaLevel = sea,
                                                 !.climate.tempLapse = lapse],
                      outTemperature |-> Undefined, outBiomes |-> Undefined]

ProbeClimate ==
  /\ probe # Undefined /\ probe.stage = "in"
  /\ probe' =
       [probe EXCEPT
          !.stage = "out",
          !.outTemperature = computeTemperature(probe.height, probe.size, probe.params,
                                                ZeroArray(probe.size * probe.size),
                                                probe.rect),
          !.outBiomes = classifyBiomes(probe.height, probe.temperature, probe.moisture,
                                       probe.size, probe.params,
                                       [i \in 0..(probe.size * probe.size - 1) |->
                                          Biome.Rainforest],
                                       probe.rect)]
  /\ UNCHANGED <<worker, requests, results, emitted, last, initSeed, pristine, bridge, wire>>

NextClimate == ProbeClimate

SpecClimate == InitClimate /\ [][NextClimate]_vars

ClimateDone == probe # Undefined /\ probe.stage = "out"

\* C13: for every cell of the classified rectangle with height < seaLevel,
\* classifyBiomes writes Ocean whatever the cell's temperature and moisture,
\* also for heights above 0.84 or 0.88 when seaLevel is higher still.
C13_OceanPrecedence ==
  ClimateDone =>
    \A i \in RectCells(probe.rect, probe.size) :
      Lt(probe.height[i], probe.params.climate.seaLevel)
        => probe.outBiomes[i] = Biome.Ocean

\* a cell in the snow band (height > 0.88, temperature < 0.45) and a cell
\* in the mountain band, both below sea level and classified
C13_Witness ==
  /\ ClimateDone
  /\ \E i, j \in RectCells(probe.rect, probe.size) :
       /\ Gt(probe.height[i], Dec(880)) /\ Lt(probe.temperature[i], Dec(450))
       /\ Lt(probe.height[i], probe.params.climate.seaLevel)
       /\ Gt(probe.height[j], Dec(840)) /\ Ge(probe.temperature[j], Dec(450))
       /\ Lt(probe.height[j], probe.params.climate.seaLevel)
       /\ probe.outBiomes[i] = Biome.Ocean /\ probe.outBiomes[j] = Biome.Ocean

\* poleFactor(y) = |y / (size - 1) - 0.5| * 2, for size > 1
poleFactor(y, size) == Mul(Abs(Sub(Div(Num(y), Num(size - 1)), Dec(500))), Num(2))

\* C19: for every size > 0 (size = 1 included), every row and every
\* tempLapse, computeTemperature writes a number in [0,1], equal to
\* clamp01(1 - tempLapse*height - 0.6*poleFactor(y)); none is non-finite.
C19_TemperatureInRange ==
  ClimateDone =>
    \A i \in RectCells(probe.rect, probe.size) :
      /\ Finite(probe.outTemperature[i])
      /\ Ge(probe.outTemperature[i], Num(0)) /\ Le(probe.outTemperature[i], Num(1))
      /\ probe.size > 1 =>
           probe.outTemperature[i] =
             Fround(clamp01(Sub(Sub(Num(1), Mul(probe.params.climate.tempLapse,
                                           probe.height[i])),
                                Mul(Dec(600), poleFactor(CellY(i, probe.size),
                                                         probe.size)))))

(***************************************************************************)
(* computeRivers on its own (specification SpecRivers): two calls on the   *)
(* same height field and sea level with thresholds t1 <= t2.  The height   *)
(* fields are those an init leaves, those a brush of radius 0 leaves after *)
(* it, and sample fields of each size from 1 up.                           *)
(***************************************************************************)
MaxRiverSize == 3

RiverThresholds == {Num(0), Dec(100), Dec(250), Dec(500), Num(1)}

HeightsAfter(ws, msgs) ==
  {[size |-> w.size, height |-> w.fields.height] : w \in ws}
  \cup {[size |-> w.size, height |-> onmessage(w, msg).worker.fields.height] :
          w \in ws, msg \in msgs}
SampledHeights ==
  {[size |-> n, height |-> SampleField(HeightSamples, k, n)] :
     n \in 1..MaxRiverSize, k \in 0..(Len(HeightSamples) - 1)}
RiverFields ==
  HeightsAfter(InitialisedWorkers, {BrushMsg(2, 2, BrushOf("raise", Num(0), Dec(500)))})
  \cup SampledHeights

InitRivers ==
  /\ worker = WorkerInit
  /\ requests = 0
  /\ results = <<>>
  /\ emitted = <<>>
  /\ last = Undefined
  /\ initSeed = 1
  /\ pristine = FALSE
  /\ bridge = Undefined
  /\ wire = Undefined
  /\ \E f \in RiverFields : \E sea \in {Dec(300), Dec(450)} :
       \E t1, t2 \in RiverThresholds :
         /\ Le(t1, t2)
         /\ probe = [stage |-> "in", size |-> f.size, height |-> f.height,
                     sea |-> sea, t1 |-> t1, t2 |-> t2,
                     out1 |-> Undefined, out2 |-> Undefined]

\* computeRivers on fresh derived buffers, the height field and threshold given
riversWith(size, height, sea, thr) ==
  computeRivers([allocateFields(size) EXCEPT !.height = height], size,
                [ParamsA EXCEPT !.size = size, !.climate.seaLevel = sea,
                                !.riverThreshold = thr]).rivers

ProbeRivers ==
  /\ probe # Undefined /\ probe.stage = "in"
  /\ probe' = [probe EXCEPT
                 !.stage = "out",
                 !.out1 = riversWith(probe.size, probe.height, probe.sea, probe.t1),
                 !.out2 = riversWith(probe.size, probe.height, probe.sea, probe.t2)]
  /\ UNCHANGED <<worker, requests, results, emitted, last, initSeed, pristine, bridge, wire>>

NextRivers == ProbeRivers

SpecRivers == InitRivers /\ [][NextRivers]_vars

RiversDone == probe # Undefined /\ probe.stage = "out"
RiverCells(rivers) == {i \in DOMAIN rivers : rivers[i] = 1}

\* C14: for one height field, size and seaLevel, if t1 <= t2 the cells
\* computeRivers marks with threshold t2 are among those it marks with t1,
\* so the river count never increases when the threshold increases.
C14_ThresholdMonotone ==
  RiversDone =>
    /\ RiverCells(probe.out2) \subseteq RiverCells(probe.out1)
    /\ Cardinality(RiverCells(probe.out2)) <= Cardinality(RiverCells(probe.out1))

\* the larger threshold keeps some rivers and drops others
C14_Witness ==
  /\ RiversDone
  /\ Gt(probe.t1, Num(0)) /\ Lt(probe.t1, probe.t2)
  /\ RiverCells(probe.out2) # {}
  /\ RiverCells(probe.out2) # RiverCells(probe.out1)

\* C15: with riverThreshold = 0, computeRivers marks every land cell
\* (height > seaLevel) as river and no other cell, for every height field.
C15_ZeroThresholdMarksLand ==
  (RiversDone /\ probe.t1 = Num(0)) =>
    RiverCells(probe.out1) = {i \in DOMAIN probe.height : Gt(probe.height[i], probe.sea)}

(***************************************************************************)
(* Strokes on their own (specification SpecStroke): on a height field, a   *)
(* raise stamp followed by a lower stamp with the same centre, radius and  *)
(* strength, or one smooth stamp.  Centres are cells of the grid, radii    *)
(* are in the range of the brush slider (radius > 0), and the strengths    *)
(* are 0.1 (the default), 0.5 and 1 of the slider's range, 1.5 above it    *)
(* and -0.5 below it.                                                      *)
(***************************************************************************)
MaxStrokeSize == 7

StrokeRadii == {Num(1), Halves(3), Num(2), Num(3)}
StrokeStrengths == {Dec(100), Dec(500), Num(1), Halves(3), Halves(-1)}

\* the array of n * n elements that all hold v
UniformField(n, v) == [i \in 0..(n * n - 1) |-> Fround(v)]

\* height fields a stroke can meet: the ones an init request leaves, the
\* all-zero field of a fresh allocation and fields a flattening leaves
StrokeFields ==
  {[size |-> w.size, height |-> w.fields.height] : w \in InitialisedWorkers}
    \cup {[size |-> n, height |-> allocateFields(n).height] : n \in 1..MaxStrokeSize}
    \cup {[size |-> 5, height |-> UniformField(5, v)] : v \in {Dec(500), Num(1)}}

InitStroke ==
  /\ worker = WorkerInit
  /\ requests = 0
  /\ results = <<>>
  /\ emitted = <<>>
  /\ last = Undefined
  /\ initSeed = 1
  /\ pristine = FALSE
  /\ bridge = Undefined
  /\ wire = Undefined
  /\ \E f \in StrokeFields : \E cx \in 0..(f.size - 1) : \E cy \in 0..(f.size - 1) :
       \E radius \in StrokeRadii : \E strength \in StrokeStrengths :
         probe = [stage |-> "in", size |-> f.size, height |-> f.height,
                  cx |-> cx, cy |-> cy, radius |-> radius, strength |-> strength,
                  raised |-> Undefined, lowered |-> Undefined, smoothed |-> Undefined]

\* applyBrush with kind "raise" on the field
StrokeRaise ==
  /\ probe # Undefined /\ probe.stage = "in"
  /\ probe' = [probe EXCEPT
                 !.stage = "raised",
                 !.raised = applyBrush(probe.height, Undefined, probe.size,
                                       probe.cx, probe.cy,
                                       BrushOf("raise", probe.radius, probe.strength))]
  /\ UNCHANGED <<worker, requests, results, emitted, last, initSeed, pristine, bridge, wire>>

\* applyBrush with kind "lower" on what the raise left
StrokeLower ==
  /\ probe # Undefined /\ probe.stage = "raised"
  /\ probe' = [probe EXCEPT
                 !.stage = "lowered",
                 !.lowered = applyBrush(probe.raised.height, Undefined, probe.size,
                                        probe.cx, probe.cy,
                                        BrushOf("lower", probe.radius, probe.strength))]
  /\ UNCHANGED <<worker, requests, results, emitted, last, initSeed, pristine, bridge, wire>>

\* applyBrush with kind "smooth" on the field
StrokeSmooth ==
  /\ probe # Undefined /\ probe.stage = "in"
  /\ probe' = [probe EXCEPT
                 !.stage = "smoothed",
                 !.smoothed = applyBrush(probe.height, Undefined, probe.size,
                                         probe.cx, probe.cy,
                                         BrushOf("smooth", probe.radius, probe.strength))]
  /\ UNCHANGED <<worker, requests, results, emitted, last, initSeed, pristine, bridge, wire>>

NextStroke == StrokeRaise \/ StrokeLower \/ StrokeSmooth

SpecStroke == InitStroke /\ [][NextStroke]_vars

StrokeCells == Cells(probe.size)
\* the cells within distance radius of the centre
StrokeDisk ==
  {i \in StrokeCells :
     Dist2(i, probe.size, probe.cx, probe.cy) <= FloorR2(probe.radius)}


\* what the raise stamp wrote before clampRegion ran
RaiseUnclamped ==
  radialAdd(probe.height, probe.size, probe.cx, probe.cy, probe.radius, probe.strength)
\* the cells whose intermediate value clampRegion had to move into [0,1]
IntermediateClamped == {i \in StrokeCells : RaiseUnclamped[i] # probe.raised.height[i]}

\* the spacing of the Float32Array values just above 1
Step32 == Div(Num(1), Num(2^(SignificandBits - 1)))

\* C16: a raise stamp followed by a lower stamp with the same centre, radius
\* and strength restores the height of every cell, to within one step of
\* the array's precision, except at cells whose value after the raise was
\* clamped to [0,1]; the cells outside the stroke disk are unchanged by the
\* raise and by the lower.
C16_RaiseLowerRestores ==
  (probe # Undefined /\ probe.stage = "lowered") =>
    /\ \A i \in StrokeCells \ IntermediateClamped :
         Le(Abs(Sub(probe.lowered.height[i], probe.height[i])), Step32)
    /\ \A i \in StrokeCells \ StrokeDisk :
         /\ probe.raised.height[i] = probe.height[i]
         /\ probe.lowered.height[i] = probe.raised.height[i]


StrokeCentre == probe.cy * probe.size + probe.cx
StrokeDist2(i) == Dist2(i, probe.size, probe.cx, probe.cy)
RaisedFromZero ==
  /\ probe # Undefined /\ probe.stage = "raised"
  /\ \A i \in StrokeCells : probe.height[i] = Num(0)

\* the cells farther than r from the centre hold 0, and a cell never holds
\* more than a cell that is nearer to the centre
StampFallsOff ==
  /\ \A i \in StrokeCells \ StrokeDisk : probe.raised.height[i] = Num(0)
  /\ \A i, j \in StrokeCells :
       StrokeDist2(i) <= StrokeDist2(j) =>
         Ge(probe.raised.height[i], probe.raised.height[j])

\* C17, as stated: one raise stamp of strength s and radius r at a cell of
\* an all-zero height field leaves the centre cell at exactly s (the
\* falloff is 1 at distance 0), leaves every cell farther than r from the
\* centre at exactly 0, and a cell never holds more than a cell that is
\* nearer to the centre.
C17_RaiseStampShape ==
  RaisedFromZero =>
    /\ probe.raised.height[StrokeCentre] = probe.strength
    /\ StampFallsOff

\* Math.fround(s) moved into [0, 1]
StoredStrength(s) ==
  IF Lt(Fround(s), Num(0)) THEN Num(0)
  ELSE IF Gt(Fround(s), Num(1)) THEN Num(1) ELSE Fround(s)

\* C17, amended: the stamp leaves the centre cell at the Float32Array value
\* nearest to s, capped at 1 when s is above 1 and raised to 0 when s is
\* below 0; the cells farther than r from the centre hold exactly 0, and a
\* cell never holds more than a cell that is nearer to the centre.
C17_StoredStampShape ==
  RaisedFromZero =>
    /\ probe.raised.height[StrokeCentre] = StoredStrength(probe.strength)
    /\ StampFallsOff

\* the stamp of strength 0.1 and radius 3 at the centre of the 7 x 7 grid:
\* the centre holds the array's value next to 0.1, which is not the number
\* 0.1; cells strictly between 0 and the centre's value inside the disk,
\* cells outside the disk
C17_Witness ==
  /\ RaisedFromZero
  /\ probe.size = 7 /\ probe.cx = 3 /\ probe.cy = 3
  /\ probe.radius = Num(3) /\ probe.strength = Dec(100)
  /\ probe.raised.height[StrokeCentre] = Fround(Dec(100))
  /\ probe.raised.height[StrokeCentre] # Dec(100)
  /\ \E i \in StrokeDisk :
       /\ Gt(probe.raised.height[i], Num(0))
       /\ Lt(probe.raised.height[i], probe.raised.height[StrokeCentre])
  /\ StrokeCells \ StrokeDisk # {}


Smoothed == probe # Undefined /\ probe.stage = "smoothed"
UniformHeight == \A i, j \in StrokeCells : probe.height[i] = probe.height[j]

\* C20: the smooth brush blends each cell of its rectangle towards the box
\* mean of its edge-clamped neighbours and then clamps the rectangle, so
\* after any smooth stroke every height in the rectangle is a number in
\* [0,1], a uniform height field is left unchanged, and no read of the
\* temporary buffer falls outside it.
C20_SmoothBlend ==
  Smoothed =>
    /\ ~probe.smoothed.threw
    /\ \A i \in RectCells(probe.smoothed.bounds, probe.size) :
         Ge(probe.smoothed.height[i], Num(0)) /\ Le(probe.smoothed.height[i], Num(1))
    /\ UniformHeight => probe.smoothed.height = probe.height
    /\ ~probe.smoothed.oob

(***************************************************************************)
(* The rain brush on its own (specification SpecRain): one call of         *)
(* applyBrush with kind "rain" on the buffers an init leaves, with or      *)
(* without the moisture array, for each centre in or next to the grid.     *)
(***************************************************************************)
MaxRainOut == 2

RainRadii == {Halves(1), Num(1), Num(2), Num(3)}
RainStrengths == {Dec(100), Dec(500), Num(1)}

InitRain ==
  /\ worker \in InitialisedWorkers
  /\ requests = 0
  /\ results = <<>>
  /\ emitted = <<>>
  /\ last = Undefined
  /\ initSeed = 1
  /\ pristine = TRUE
  /\ bridge = Undefined
  /\ wire = Undefined
  /\ \E cx \in (-MaxRainOut)..(worker.size - 1 + MaxRainOut) :
       \E cy \in (-MaxRainOut)..(worker.size - 1 + MaxRainOut) :
         \E radius \in RainRadii : \E strength \in RainStrengths :
           \E given \in BOOLEAN :
             probe = [stage |-> "in", cx |-> cx, cy |-> cy,
                      brush |-> BrushOf("rain", radius, strength),
                      moisture |-> IF given THEN worker.fields.moisture ELSE Undefined,
                      out |-> Undefined]

ProbeRain ==
  /\ probe # Undefined /\ probe.stage = "in"
  /\ probe' = [probe EXCEPT
                 !.stage = "out",
                 !.out = applyBrush(worker.fields.height, probe.moisture, worker.size,
                                    probe.cx, probe.cy, probe.brush)]
  /\ UNCHANGED <<worker, requests, results, emitted, last, initSeed, pristine, bridge, wire>>

NextRain == ProbeRain

SpecRain == InitRain /\ [][NextRain]_vars

RainDone == probe # Undefined /\ probe.stage = "out"

\* C21: applyBrush with kind rain leaves every cell of the height array as
\* it was; it changes moisture only at cells of the rectangle it returns;
\* and with no moisture array it changes nothing at all.
C21_RainLeavesHeight ==
  RainDone =>
    /\ probe.out.height = worker.fields.height
    /\ probe.moisture = Undefined => probe.out.moisture = Undefined
    /\ probe.moisture # Undefined =>
         /\ DOMAIN probe.out.moisture = DOMAIN probe.moisture
         /\ \A i \in DOMAIN probe.moisture :
              probe.out.moisture[i] # probe.moisture[i] =>
                i \in RectCells(probe.out.bounds, worker.size)

\* a rain stroke that raised the moisture of some cell and left others of
\* the grid outside its rectangle
C21_Witness ==
  /\ RainDone /\ probe.moisture # Undefined
  /\ \E i \in DOMAIN probe.moisture : Gt(probe.out.moisture[i], probe.moisture[i])
  /\ RectCells(probe.out.bounds, worker.size) # Cells(worker.size)

(***************************************************************************)
(* computeMoisture on its own (specification SpecMoisture): one call on a  *)
(* given height array, for each size from 1 up, rectangle and moisture     *)
(* shift, into an array that already holds values.                         *)
(***************************************************************************)
MaxMoistureSize == 3

MoistureShifts == {Halves(-1), Num(0), Dec(100), Dec(500), Num(1)}

InitMoisture ==
  /\ worker = WorkerInit
  /\ requests = 0
  /\ results = <<>>
  /\ emitted = <<>>
  /\ last = Undefined
  /\ initSeed = 1
  /\ pristine = FALSE
  /\ bridge = Undefined
  /\ wire = Undefined
  /\ \E n \in 1..MaxMoistureSize : \E k \in 0..(Len(HeightSamples) - 1) :
       \E km \in 0..(Len(ClimateSamples) - 1) : \E rect \in ClimateRects(n) :
         \E shift \in MoistureShifts :
           probe = [stage |-> "in", size |-> n, rect |-> rect,
                    height |-> SampleField(HeightSamples, k, n),
                    moisture |-> SampleField(ClimateSamples, km, n),
                    params |-> [ParamsA EXCEPT !.size = n,
                                               !.climate.moistureShift = shift],
                    out |-> Undefined]

ProbeMoisture ==
  /\ probe # Undefined /\ probe.stage = "in"
  /\ probe' = [probe EXCEPT
                 !.stage = "out",
                 !.out = computeMoisture(probe.height, probe.size, probe.params,
                                         probe.moisture, probe.rect)]
  /\ UNCHANGED <<worker, requests, results, emitted, last, initSeed, pristine, bridge, wire>>

NextMoisture == ProbeMoisture

SpecMoisture == InitMoisture /\ [][NextMoisture]_vars

MoistureDone == probe # Undefined /\ probe.stage = "out"

\* height(east neighbour) - height(west neighbour), a neighbour missing at
\* the grid edge replaced by the cell's own height
EastwardSlope(i) ==
  Sub(IF CellX(i, probe.size) < probe.size - 1 THEN probe.height[i + 1] ELSE probe.height[i],
      IF CellX(i, probe.size) > 0 THEN probe.height[i - 1] ELSE probe.height[i])

\* 0.15 * max(0, slope) - 0.10 * max(0, -slope)
RainShadow(i) ==
  Sub(Mul(Dec(150), Max0(EastwardSlope(i))), Mul(Dec(100), Max0(Neg(EastwardSlope(i)))))

\* 1 - height + moistureShift
BaseMoisture(i) == Add(Sub(Num(1), probe.height[i]), probe.params.climate.moistureShift)

OutsideRectKept ==
  \A i \in Cells(probe.size) \ RectCells(probe.rect, probe.size) :
    probe.out[i] = probe.moisture[i]

\* C22 as stated: computeMoisture writes, for every cell of its rectangle,
\* clamp01(1 - height + moistureShift + 0.15*max(0, slope)
\* - 0.10*max(0, -slope)) with one clamp over the whole sum; cells outside
\* the rectangle are not written.
C22_SingleClamp ==
  MoistureDone =>
    /\ \A i \in RectCells(probe.rect, probe.size) :
         probe.out[i] = Fround(clamp01(Add(BaseMoisture(i), RainShadow(i))))
    /\ OutsideRectKept

\* C22 amended: computeMoisture writes, for every cell of its rectangle,
\* clamp01(clamp01(1 - height + moistureShift) + 0.15*max(0, slope)
\* - 0.10*max(0, -slope)): the base moisture is clamped to [0,1] before the
\* rain-shadow term is added and the sum is clamped again; slope and the
\* edge rule are as stated, and cells outside the rectangle are not written.
C22_ClampedBase ==
  MoistureDone =>
    /\ \A i \in RectCells(probe.rect, probe.size) :
         probe.out[i] = Fround(clamp01(Add(clamp01(BaseMoisture(i)), RainShadow(i))))
    /\ OutsideRectKept

\* a cell whose base moisture is above 1 and whose rain-shadow term pulls
\* the stored value below 1, next to cells outside the rectangle
C22_Witness ==
  /\ MoistureDone
  /\ \E i \in RectCells(probe.rect, probe.size) :
       /\ Gt(BaseMoisture(i), Num(1))
       /\ Lt(RainShadow(i), Num(0))
       /\ Lt(probe.out[i], Fround(clamp01(Add(BaseMoisture(i), RainShadow(i)))))
  /\ RectCells(probe.rect, probe.size) # Cells(probe.size)

(***************************************************************************)
(* The decision list of classifyBiomes (specification SpecClimate)         *)
(***************************************************************************)
\* the rules of the list for cell i, in their order; the last one is the
\* temperature/moisture bands, which always match
BiomeRules(i) ==
  <<Lt(probe.height[i], probe.params.climate.seaLevel),
    Lt(probe.height[i], Add(probe.params.climate.seaLevel, Dec(20))),
    Gt(probe.height[i], Dec(880)) /\ Lt(probe.temperature[i], Dec(450)),
    Gt(probe.height[i], Dec(840)),
    TRUE>>

FirstRule(i) ==
  CHOOSE k \in 1..5 : BiomeRules(i)[k] /\ \A j \in 1..(k - 1) : ~BiomeRules(i)[j]

\* the biome of the temperature/moisture bands
BandBiome(t, m) ==
  IF Lt(t, Dec(330)) THEN (IF Lt(m, Dec(350)) THEN Biome.Tundra ELSE Biome.BorealForest)
  ELSE IF Lt(t, Dec(660))
       THEN (IF Lt(m, Dec(300)) THEN Biome.Shrubland
             ELSE IF Lt(m, Dec(550)) THEN Biome.Grassland ELSE Biome.TemperateForest)
  ELSE (IF Lt(m, Dec(280)) THEN Biome.Desert
        ELSE IF Lt(m, Dec(550)) THEN Biome.Savanna ELSE Biome.Rainforest)

\* C23: for every cell of the rectangle classifyBiomes writes one biome
\* index in 0..11, the one of the first rule that matches in the order
\* Ocean (h < sea), Beach (h < sea + 0.02), Snow (h > 0.88 and t < 0.45),
\* Mountain (h > 0.84), temperature/moisture bands; a cell with
\* sea <= h < sea + 0.02 is Beach even when h > 0.88.
C23_FirstMatchWins ==
  ClimateDone =>
    \A i \in RectCells(probe.rect, probe.size) :
      /\ probe.outBiomes[i] \in 0..11
      /\ probe.outBiomes[i] =
           <<Biome.Ocean, Biome.Beach, Biome.Snow, Biome.Mountain,
             BandBiome(probe.temperature[i], probe.moisture[i])>>[FirstRule(i)]

\* a cell at sea level that is also in the snow band (h > 0.88, t < 0.45)
\* and is classified Beach, next to a higher cell that the snow or the
\* mountain rule classifies
C23_Witness ==
  /\ ClimateDone
  /\ \E i, k \in RectCells(probe.rect, probe.size) :
       /\ FirstRule(i) = 2 /\ BiomeRules(i)[3] /\ BiomeRules(i)[4]
       /\ probe.outBiomes[i] = Biome.Beach
       /\ FirstRule(k) \in {3, 4}
       /\ probe.outBiomes[k] \in {Biome.Snow, Biome.Mountain}

(***************************************************************************)
(* The flow routing of computeRivers on its own (specification SpecFlow):  *)
(* the processing order, the downhill target of every cell and the flow    *)
(* accumulation buffer, for a given height field and sea level.  The       *)
(* height fields are those of SpecRivers, fields with plateaus and equal   *)
(* drops (all 2 x 2 fields over three heights among them), and the fields  *)
(* a full-strength raise (a plateau at 1) and a smooth stroke leave.        *)
(***************************************************************************)
MaxFlowSize == 3

PlateauSamples == <<500, 500, 900, 290, 900, 500, 1000, 290, 290, 850>>

FlowFields ==
  SampledHeights
  \cup {[size |-> n, height |-> SampleField(PlateauSamples, k, n)] :
          n \in 1..MaxFlowSize, k \in 0..(Len(PlateauSamples) - 1)}
  \cup {[size |-> 2, height |-> [i \in 0..3 |-> Fround(Dec(v[i]))]] :
          v \in [0..3 -> {290, 500, 900}]}
  \cup HeightsAfter(InitialisedWorkers,
                    {BrushMsg(2, 2, BrushOf("raise", Num(0), Dec(500))),
                     BrushMsg(2, 2, BrushOf("raise", Num(2), Num(1))),
                     BrushMsg(2, 4, BrushOf("smooth", Num(1), Dec(500)))})

InitFlow ==
  /\ worker = WorkerInit
  /\ requests = 0
  /\ results = <<>>
  /\ emitted = <<>>
  /\ last = Undefined
  /\ initSeed = 1
  /\ pristine = FALSE
  /\ bridge = Undefined
  /\ wire = Undefined
  /\ \E f \in FlowFields : \E sea \in {Dec(300), Dec(450)} :
       probe = [stage |-> "in", size |-> f.size, height |-> f.height, sea |-> sea,
                order |-> Undefined, target |-> Undefined, accum |-> Undefined]

\* the sort, downhill(i) for every cell, and the accumulate loop
ProbeFlow ==
  /\ probe # Undefined /\ probe.stage = "in"
  /\ probe' = [probe EXCEPT
                 !.stage = "out",
                 !.order = SortedIndices(probe.height, probe.size * probe.size),
                 !.target = [i \in Cells(probe.size) |->
                               downhill(probe.height, probe.size, i)],
                 !.accum = FlowAccum(probe.height, probe.size, probe.sea)]
  /\ UNCHANGED <<worker, requests, results, emitted, last, initSeed, pristine, bridge, wire>>

NextFlow == ProbeFlow

SpecFlow == InitFlow /\ [][NextFlow]_vars

FlowDone == probe # Undefined /\ probe.stage = "out"
FlowCells == Cells(probe.size)

\* the in-grid 8-neighbours of cell i
Neighbours(i) ==
  {j \in FlowCells \ {i} :
     /\ AbsInt(CellX(j, probe.size) - CellX(i, probe.size)) <= 1
     /\ AbsInt(CellY(j, probe.size) - CellY(i, probe.size)) <= 1}

\* the neighbours strictly lower than cell i
LowerNeighbours(i) == {j \in Neighbours(i) : Lt(probe.height[j], probe.height[i])}

Drop(i, j) == Sub(probe.height[i], probe.height[j])

\* C25: the downhill target of a cell is an in-grid 8-neighbour with the
\* largest strictly positive height drop, the first in row-major order
\* among equal drops, and it is -1 exactly when no in-grid neighbour is
\* strictly lower; a target is strictly lower than its source.
C25_SteepestLowerNeighbour ==
  FlowDone =>
    \A i \in FlowCells :
      /\ probe.target[i] = -1 <=> LowerNeighbours(i) = {}
      /\ probe.target[i] # -1 =>
           /\ probe.target[i] \in LowerNeighbours(i)
           /\ \A j \in LowerNeighbours(i) :
                \/ Lt(Drop(i, j), Drop(i, probe.target[i]))
                \/ Drop(i, j) = Drop(i, probe.target[i]) /\ probe.target[i] <= j

\* a cell with two lower neighbours of equal, largest drop, a cell on a
\* plateau with no lower neighbour, and a cell with lower neighbours of
\* different drops
C25_Witness ==
  /\ FlowDone
  /\ \E i \in FlowCells :
       \E j \in LowerNeighbours(i) \ {probe.target[i]} :
         /\ probe.target[i] # -1
         /\ Drop(i, j) = Drop(i, probe.target[i])
  /\ \E i \in FlowCells :
       /\ probe.target[i] = -1
       /\ \E j \in Neighbours(i) : probe.height[j] = probe.height[i]
  /\ \E i \in FlowCells :
       \E j \in LowerNeighbours(i) : Lt(Drop(i, j), Drop(i, probe.target[i]))


\* the position of cell i in the processing order
Pos(i) == CHOOSE k \in DOMAIN probe.order : probe.order[k] = i
\* a cell the accumulate loop does not skip: not `z <= sea`
Land(i) == ~Le(probe.height[i], probe.sea)
\* the land cells whose downhill target is cell i
Sources(i) == {j \in FlowCells : Land(j) /\ probe.target[j] = i}

RECURSIVE SumOver(_, _)
SumOver(f, S) ==
  IF S = {} THEN Num(0)
  ELSE LET j == CHOOSE j \in S : TRUE IN Add(f[j], SumOver(f, S \ {j}))

\* 1 plus the inflow a land cell has received when its turn comes, by
\* position in the order
RECURSIVE TotalAt(_)
TotalAt(i) ==
  Add(Num(1), SumOver([j \in FlowCells |-> IF j \in Sources(i) /\ Pos(j) < Pos(i)
                                           THEN TotalAt(j) ELSE Num(0)], FlowCells))

\* what cells processed after cell i still add to its accumulator
LateInflow(i) ==
  SumOver([j \in FlowCells |-> IF j \in Sources(i) /\ Pos(j) > Pos(i)
                               THEN TotalAt(j) ELSE Num(0)], FlowCells)

\* among the cells whose height is a number
HeightOrdered ==
  \A a, b \in DOMAIN probe.order :
    (a < b /\ ~IsNaN(probe.height[probe.order[a]])
           /\ ~IsNaN(probe.height[probe.order[b]])) =>
      \/ Gt(probe.height[probe.order[a]], probe.height[probe.order[b]])
      \/ /\ probe.height[probe.order[a]] = probe.height[probe.order[b]]
         /\ probe.order[a] < probe.order[b]

\* C24: computeRivers processes every cell once, in order of height
\* descending with equal heights by ascending cell index; in that order a
\* cell with height <= seaLevel gets accumulation 0 and pushes nothing,
\* and any other cell gets 1 plus the inflow it has received so far and
\* adds that total to the accumulator of its downhill target, if any.
C24_ProcessingOrder ==
  FlowDone =>
    /\ {probe.order[k] : k \in DOMAIN probe.order} = FlowCells
    /\ Len(probe.order) = Cardinality(FlowCells)
    /\ HeightOrdered
    /\ \A i \in FlowCells :
         probe.accum[i] = Add(IF Land(i) THEN TotalAt(i) ELSE Num(0), LateInflow(i))

\* C29: at the end of the accumulate loop, every cell i above sea level
\* holds 1 plus the sum of the final accumulations of the land cells whose
\* downhill target is i, and every source was processed before its target.
C29_AccumulationFinal ==
  FlowDone =>
    \A i \in FlowCells :
      /\ \A j \in Sources(i) : Pos(j) < Pos(i)
      /\ Land(i) => probe.accum[i] = Add(Num(1), SumOver(probe.accum, Sources(i)))

(***************************************************************************)
(* The rain brush through the worker (specification Spec)                  *)
(***************************************************************************)
RainCentre == last.msg.y * worker.size + last.msg.x
RainHandled ==
  /\ Handled /\ IsBrush /\ HasResult
  /\ last.msg.brush.kind = "rain" /\ Gt(last.msg.brush.strength, Num(0))
  /\ last.msg.x \in 0..(worker.size - 1) /\ last.msg.y \in 0..(worker.size - 1)

CappedAtOne(v) == IF Lt(v, Num(1)) THEN v ELSE Num(1)

\* C27: the result emitted for a rain stroke of positive strength carries
\* the moisture the stroke added: at the stroke centre, where the moisture
\* was below 1, it is the old value plus the strength, capped at 1, and so
\* greater than before the edit.
C27_RainInResult ==
  (RainHandled /\ Lt(last.before.fields.moisture[RainCentre], Num(1))) =>
    /\ Gt(ResultFields.moisture[RainCentre], last.before.fields.moisture[RainCentre])
    /\ ResultFields.moisture[RainCentre] =
         CappedAtOne(Fround(Add(last.before.fields.moisture[RainCentre],
                                last.msg.brush.strength)))


(***************************************************************************)
(* Rivers against biomes in the results (specification Spec)               *)
(***************************************************************************)
ResultRivers == {i \in DOMAIN ResultFields.rivers : ResultFields.rivers[i] = 1}

\* C30: in every result emitted, after init, recompute or brush, every cell
\* the river mask marks has a biome other than Ocean.
C30_NoRiverInOcean ==
  HasResult => \A i \in ResultRivers : ResultFields.biomes[i] # Biome.Ocean

\* the result of a brush that changed the height field, with rivers
\* marked and Ocean cells in the same result
C30_Witness ==
  /\ IsBrush /\ HasResult
  /\ ResultFields.height # last.before.fields.height
  /\ ResultRivers # {}
  /\ \E i \in DOMAIN ResultFields.biomes : ResultFields.biomes[i] = Biome.Ocean


(***************************************************************************)
(* The worker bridge with the worker behind it (specification SpecBridge). *)
(* noise.ts holds createWorkerBridge twice: lines 212-312 with the sea     *)
(* level (currentSeaLevel, lastFields, paintFrom, setSeaLevel, and a brush *)
(* that posts nothing), lines 344-450 without it; bridge.version says      *)
(* which of the two was called.  `bridge` holds the variables of the       *)
(* closure; `wire` holds what lies between the main thread and the worker  *)
(* and what the browser keeps for the bridge: the two message queues, the  *)
(* callback registered with requestAnimationFrame, the frame count, and    *)
(* what the stage was given: wire.applied has one entry for every run of   *)
(* applyResult, wire.painted one entry for every time the textures of the  *)
(* stage were set, by applyResult or by setSeaLevel.  Each message carries *)
(* the number of the call that caused it and the seed the worker used.     *)
(* Calls to the bridge, the worker's handler, the delivery of one message  *)
(* to worker.onmessage, animation frames and dispose interleave freely;    *)
(* the calls go on after dispose.  worker.terminate() ends the worker and  *)
(* the delivery of its messages; a message posted to it afterwards is      *)
(* dropped.                                                                *)
(***************************************************************************)
MaxCalls == 2
MaxFrames == 2
MaxSeaLevelCalls == 1

\* rafId = null: requestAnimationFrame hands out positive numbers
NoFrame == 0

\* the `initialSize` argument
InitialSize == ParamsA.size

BridgeBrushMsgs == {BrushMsg(2, 2, BrushOf("lower", Num(2), Dec(500)))}

\* the `level` arguments of setSeaLevel
SeaLevels == {Dec(300), Dec(600)}

\* the closure variables of the two versions, and nothing sent or painted
InitBridge ==
  /\ worker = WorkerInit
  /\ requests = 0
  /\ results = <<>>
  /\ emitted = <<>>
  /\ last = Undefined
  /\ initSeed = 1
  /\ pristine = FALSE
  /\ probe = Undefined
  /\ \E coalesce \in BOOLEAN : \E version \in {1, 2} :
       bridge = [version |-> version, simSize |-> InitialSize, currentSeed |-> 1,
                 currentParams |-> Undefined,
                 currentSeaLevel |-> IF version = 1 THEN Dec(450) ELSE Undefined,
                 lastFields |-> Undefined,
                 pendingResult |-> Undefined, rafId |-> NoFrame,
                 rafCoalesce |-> coalesce]
  /\ wire = [toWorker |-> <<>>, toMain |-> <<>>, calls |-> 0, levels |-> 0,
             terminated |-> FALSE, rafCallbacks |-> 0, frame |-> 0,
             received |-> <<>>, applied |-> <<>>, painted |-> <<>>,
             overwritten |-> {}, worldSize |-> Undefined]

\* post(msg): worker.postMessage, the message numbered by the call; a
\* terminated worker takes no message
post(w, msg) ==
  [w EXCEPT !.calls = w.calls + 1,
            !.toWorker = IF w.terminated THEN w.toWorker
                         ELSE Append(w.toWorker, [id |-> w.calls + 1, msg |-> msg])]

\* api.init(seed, params)
BridgeInit ==
  /\ wire.calls < MaxCalls
  /\ \E sd \in Seeds : \E ps \in ParamsSet :
       /\ bridge' = [bridge EXCEPT !.currentSeed = sd, !.currentParams = ps,
                                   !.simSize = ps.size]
       /\ wire' = post([wire EXCEPT !.worldSize = ps.size],
                       [t |-> "init", seed |-> sd, params |-> ps])
  /\ UNCHANGED <<worker, requests, results, emitted, last, initSeed, pristine, probe>>

\* api.recompute(params)
BridgeRecompute ==
  /\ wire.calls < MaxCalls
  /\ \E ps \in ParamsSet :
       /\ bridge' = [bridge EXCEPT !.currentParams = ps, !.simSize = ps.size]
       /\ wire' = post([wire EXCEPT !.worldSize = ps.size],
                       [t |-> "recompute", params |-> ps])
  /\ UNCHANGED <<worker, requests, results, emitted, last, initSeed, pristine, probe>>

\* api.brush(x, y, brush): the first version posts nothing
BridgeBrush ==
  /\ wire.calls < MaxCalls
  /\ \E msg \in BridgeBrushMsgs :
       wire' = IF bridge.version = 1
               THEN [wire EXCEPT !.calls = wire.calls + 1]
               ELSE post(wire, msg)
  /\ UNCHANGED <<worker, requests, results, emitted, last, initSeed, pristine, probe,
                 bridge>>

\* the messages one run of the worker's handler posted, as they travel
Tagged(id, seed, posted) ==
  [k \in DOMAIN posted |-> [id |-> id, seed |-> seed, msg |-> posted[k]]]

\* the worker takes the next message: ctx.onmessage runs to completion
WorkerHandle ==
  /\ ~wire.terminated /\ wire.toWorker # <<>>
  /\ \E r \in {onmessage(worker, Head(wire.toWorker).msg)} :
       /\ worker' = r.worker
       /\ wire' = [wire EXCEPT
                     !.toWorker = Tail(wire.toWorker),
                     !.toMain = wire.toMain \o
                       Tagged(Head(wire.toWorker).id, r.worker.seed, r.posted)]
  /\ UNCHANGED <<requests, results, emitted, last, initSeed, pristine, probe, bridge>>

\* msg.fields, with the number of the call that caused the result
FieldsOf(m) == [id |-> m.id, fields |-> m.msg.fields]

\* terrainTextureFromFields(fields, simSize, currentSeed, seaLevel),
\* stage.setTerrainTexture and stage.setRiversTexture
setTextures(b, w, f, seaLevel, by) ==
  [w EXCEPT !.painted =
     Append(w.painted,
            [id |-> f.id, by |-> by, seaLevel |-> seaLevel,
             simSize |-> b.simSize, currentSeed |-> b.currentSeed,
             cells |-> Cardinality(DOMAIN f.fields.height),
             frame |-> w.frame, seen |-> Len(w.received),
             applied |-> Len(w.applied), terminated |-> w.terminated])]

\* paintFrom(fields)
paintFrom(b, w, f, by) == setTextures(b, w, f, b.currentSeaLevel, by)

\* what applyResult was called with, and when
Called(b, w, m) ==
  [w EXCEPT !.applied =
     Append(w.applied,
            [id |-> m.id, frame |-> w.frame, seen |-> Len(w.received),
             simSize |-> b.simSize, currentSeed |-> b.currentSeed,
             cells |-> Cardinality(DOMAIN m.msg.fields.height),
             seed |-> m.seed, terminated |-> w.terminated])]

\* applyResult(msg): the first version keeps the fields in lastFields and
\* paints from them with currentSeaLevel, the second paints msg.fields with
\* a sea level of undefined
applyResult(b, w, m) ==
  IF b.version = 1
  THEN [bridge |-> [b EXCEPT !.lastFields = FieldsOf(m)],
        wire |-> paintFrom(b, Called(b, w, m), FieldsOf(m), "applyResult")]
  ELSE [bridge |-> b,
        wire |-> setTextures(b, Called(b, w, m), FieldsOf(m), Undefined, "applyResult")]

\* a scheduleApply that would never wait for the animation frame
scheduleApply_immediate(b, w) ==
  applyResult([b EXCEPT !.pendingResult = Undefined], w, b.pendingResult)

\* scheduleApply()
scheduleApply(b, w) ==
  IF ~b.rafCoalesce
  THEN applyResult([b EXCEPT !.pendingResult = Undefined], w, b.pendingResult)
  ELSE IF b.rafId # NoFrame
       THEN [bridge |-> b, wire |-> w]
       ELSE [bridge |-> [b EXCEPT !.rafId = w.rafCallbacks + 1],
             wire |-> [w EXCEPT !.rafCallbacks = w.rafCallbacks + 1]]

\* the results that were assigned to pendingResult and replaced there
Replaced(b, w) ==
  IF b.pendingResult # Undefined
  THEN w.overwritten \cup {b.pendingResult.id}
  ELSE w.overwritten

\* worker.onmessage on the main thread, for the message at the head
MainOnMessage ==
  /\ ~wire.terminated /\ wire.toMain # <<>>
  /\ \E m \in {Head(wire.toMain)} :
       \E st \in {IF m.msg.t = "result"
                  THEN scheduleApply([bridge EXCEPT !.pendingResult = m],
                                     [wire EXCEPT !.toMain = Tail(wire.toMain),
                                                  !.received = Append(wire.received, m.id),
                                                  !.overwritten = Replaced(bridge, wire)])
                  ELSE [bridge |-> bridge,
                        wire |-> [wire EXCEPT !.toMain = Tail(wire.toMain)]]} :
         /\ bridge' = st.bridge
         /\ wire' = st.wire
  /\ UNCHANGED <<worker, requests, results, emitted, last, initSeed, pristine, probe>>

\* the callback given to requestAnimationFrame
rafCallback(b, w) ==
  IF b.pendingResult # Undefined /\ b.pendingResult.msg.t = "result"
  THEN applyResult([b EXCEPT !.rafId = NoFrame, !.pendingResult = Undefined],
                   w, b.pendingResult)
  ELSE [bridge |-> [b EXCEPT !.rafId = NoFrame], wire |-> w]

\* one animation frame: the browser runs the callback registered for it
AnimationFrame ==
  /\ wire.frame < MaxFrames
  /\ \E st \in {IF wire.rafCallbacks > 0
                THEN rafCallback(bridge, [wire EXCEPT !.frame = wire.frame + 1,
                                                      !.rafCallbacks = 0])
                ELSE [bridge |-> bridge,
                      wire |-> [wire EXCEPT !.frame = wire.frame + 1]]} :
       /\ bridge' = st.bridge
       /\ wire' = st.wire
  /\ UNCHANGED <<worker, requests, results, emitted, last, initSeed, pristine, probe>>

\* setSeaLevel(level), with the call counted
setSeaLevel(b, w, level) ==
  IF b.lastFields # Undefined
  THEN paintFrom([b EXCEPT !.currentSeaLevel = level],
                 [w EXCEPT !.levels = w.levels + 1], b.lastFields, "setSeaLevel")
  ELSE [w EXCEPT !.levels = w.levels + 1]

\* api.setSeaLevel(level), of the first version
BridgeSetSeaLevel ==
  /\ bridge.version = 1 /\ wire.levels < MaxSeaLevelCalls
  /\ \E level \in SeaLevels :
       /\ bridge' = [bridge EXCEPT !.currentSeaLevel = level]
       /\ wire' = setSeaLevel(bridge, wire, level)
  /\ UNCHANGED <<worker, requests, results, emitted, last, initSeed, pristine, probe>>

\* api.dispose(): the callback is cancelled, rafId is left as it is
BridgeDispose ==
  /\ bridge' = [bridge EXCEPT !.pendingResult = Undefined]
  /\ wire' = [wire EXCEPT
                !.rafCallbacks = IF bridge.rafId # NoFrame THEN 0 ELSE wire.rafCallbacks,
                !.terminated = TRUE, !.toWorker = <<>>, !.toMain = <<>>]
  /\ UNCHANGED <<worker, requests, results, emitted, last, initSeed, pristine, probe>>

NextBridge ==
  \/ BridgeInit \/ BridgeRecompute \/ BridgeBrush \/ BridgeSetSeaLevel
  \/ WorkerHandle \/ MainOnMessage \/ AnimationFrame \/ BridgeDispose

SpecBridge == InitBridge /\ [][NextBridge]_vars


Applied == DOMAIN wire.applied
AppliedIds == {wire.applied[a].id : a \in Applied}
Painted == DOMAIN wire.painted
PaintedIds == {wire.painted[p].id : p \in Painted}

\* at most one run of applyResult per animation frame, in a frame, with the
\* result received most recently and before dispose
AppliedInFrames ==
  /\ \A a, b \in Applied : a # b => wire.applied[a].frame # wire.applied[b].frame
  /\ \A a \in Applied :
       /\ wire.applied[a].frame > 0
       /\ wire.applied[a].seen \in DOMAIN wire.received
       /\ wire.applied[a].id = wire.received[wire.applied[a].seen]
       /\ ~wire.applied[a].terminated

\* no result that was replaced in pendingResult reached the stage; after
\* dispose nothing is pending and no frame callback is registered
ReplacedNeverShown ==
  /\ (AppliedIds \cup PaintedIds) \cap wire.overwritten = {}
  /\ wire.terminated => bridge.pendingResult = Undefined /\ wire.rafCallbacks = 0

\* C26, as stated: with rafCoalesce enabled, at most one result is applied
\* to the stage per animation frame, and the one applied is the result
\* received most recently; a result that was replaced in pendingResult
\* before the frame callback ran is never applied; no pending result is
\* applied after dispose.  The stage is given a result whenever its
\* textures are set from the result's fields.
C26_CoalescedApply ==
  bridge.rafCoalesce =>
    /\ AppliedInFrames
    /\ \A p, q \in Painted :
         wire.painted[p].frame = wire.painted[q].frame =>
           wire.painted[p].id = wire.painted[q].id
    /\ \A p \in Painted :
         /\ wire.painted[p].seen \in DOMAIN wire.received
         /\ wire.painted[p].id = wire.received[wire.painted[p].seen]
    /\ ReplacedNeverShown

\* C26, amended: with rafCoalesce enabled, applyResult runs at most once
\* per animation frame, in the frame callback, with the result received
\* most recently, and never after dispose; a result that was replaced in
\* pendingResult is never applied nor painted; after dispose nothing is
\* pending and no callback is registered.  Whenever the textures of the
\* stage are set, by applyResult or by setSeaLevel, they are set from the
\* result applyResult ran with last, and the textures set in one frame are
\* those of one result; setSeaLevel sets them with the level it was given.
C26_AppliedLastIsShown ==
  bridge.rafCoalesce =>
    /\ AppliedInFrames
    /\ \A p, q \in Painted :
         wire.painted[p].frame = wire.painted[q].frame =>
           wire.painted[p].id = wire.painted[q].id
    /\ \A p \in Painted :
         /\ wire.painted[p].applied \in Applied
         /\ wire.painted[p].id = wire.applied[wire.painted[p].applied].id
         /\ wire.painted[p].by = "setSeaLevel" => wire.painted[p].seaLevel \in SeaLevels
    /\ \A a \in Applied :
         \E p \in Painted : wire.painted[p].by = "applyResult" /\ wire.painted[p].applied = a
    /\ ReplacedNeverShown

\* result 1 was applied in a frame; result 2 arrived and waited in
\* pendingResult when the bridge was disposed; setSeaLevel then painted
\* result 1 again
C26_Witness ==
  /\ bridge.rafCoalesce
  /\ wire.terminated
  /\ \E a \in Applied : wire.applied[a].id = 1 /\ wire.applied[a].frame > 0
  /\ \E p \in Painted :
       /\ wire.painted[p].by = "setSeaLevel"
       /\ wire.painted[p].terminated
       /\ wire.painted[p].id = 1
       /\ wire.painted[p].seen = 2
       /\ wire.received[2] = 2

\* C28: every result the bridge applies is painted with the grid size and
\* the seed of the request that produced it: simSize at applyResult is the
\* side length of the fields of the applied result.
C28_PaintedWithRequestSize ==
  \A a \in Applied :
    /\ wire.applied[a].simSize * wire.applied[a].simSize = wire.applied[a].cells
    /\ wire.applied[a].currentSeed = wire.applied[a].seed

=============================================================================
